---- MODULE Spec2Model ----
(***************************************************************************)
(* A model of sat-o-mat: the schedule storage (src/scheduler/storage.rs,   *)
(* src/web/api/schedules.rs) and the schedule runner with its executor     *)
(* (src/scheduler/runner.rs, src/scheduler/artifacts.rs, src/executor),    *)
(* the tracker with its worker thread (src/tracker/tracker.rs), and the    *)
(* parser of schedule documents (src/scheduler/parser.rs).                 *)
(*                                                                         *)
(* Instants are integers.  In the storage part they are the schedule's     *)
(* start and end; in the runner part one unit of the clock is 100 ms, the  *)
(* polling period of the process monitor and the length of the final wait. *)
(***************************************************************************)
EXTENDS Integers, Sequences, FiniteSets, TLC

\* ------------------------------------------------------------------ bounds

\* Instants of the storage part are 0..MaxTime.
MaxTime == 2
\* Number of uuids generate_id can draw, so of schedules ever saved.
MaxIds == 2

VARIABLES
    files,      \* the schedule files on disk: records [state, id, start, end]
    folders,    \* the folders of the storage that exist on disk
    nextUuid,   \* the next fresh uuid generate_id draws
    ret,        \* the last Storage call and what it returned
    proc,       \* the position and locals of each concurrent request handler
    seenAt,     \* for an id made Active by a handler: the Active ids its check read
    steps,      \* Runner.schedule.steps: the steps, each [time, cmd]
    now,        \* the wall clock, in units of 100 ms
    pc,         \* where the Runner's thread is
    idx,        \* the index i of the step the loop of run_internal is at
    deadline,   \* the instant the current recv_timeout expires
    abort_rx,   \* the abort channel: the AbortSignals sent and not yet received
    rx_alive,   \* whether the receiving end still exists (the Runner is not dropped)
    processes,  \* Executor.processes: the steps whose child is in the registry
    child,      \* per run_shell step: the shared slot and the child process
    mon,        \* per run_shell step: the monitor thread
    log,        \* ArtifactsManager.execution_log
    saved,      \* the content of execution_log.yaml, when there is one
    artifacts_dir, \* whether the artifacts directory of the run exists
    cmd_result, \* what the command of the current step returned
    run_result, \* what run_internal, so run, returns
    worker,     \* whether Tracker.worker holds a handle
    dispatched, \* history: the indices of the steps dispatched, in order
    returned,   \* history: per step whose command returned, whether it was Ok
    status,     \* Tracker.shared.status: mode, last_sample, trajectory
    wk,         \* the tracker's worker thread: its position and locals
    stop_tx,    \* whether a stop signal is in the worker's stop channel
    tpc,        \* where the caller of a tracker operation is
    tret,       \* what the last tracker operation returned
    doc,        \* the schedule document given to Schedule::from_str
    parsed,     \* what Schedule::from_str returned, once it has
    input,      \* the arguments of a function that is called on its own
    output      \* what that function returned, once it has

\* Steps of a schedule are at most MaxSteps, the clock runs to MaxClock.
MaxSteps == 2
MaxClock == 2

\* The variables of the concurrent request handlers.
concVars == <<proc, seenAt>>

\* The variables of the storage and those of a run.
storageVars == <<files, folders, nextUuid, ret, proc, seenAt>>

\* The variables of the tracker besides the handle (worker) and the clock.
trackerVars == <<status, wk, stop_tx, tpc, tret>>

\* The variables of a call of one function.
callVars == <<input, output>>

\* The variables of a parse.
parserVars == <<doc, parsed, callVars>>

runnerVars == <<steps, now, pc, idx, deadline, abort_rx, rx_alive, processes,
                child, mon, log, saved, artifacts_dir, cmd_result, run_result, worker,
                dispatched, returned>>

\* ------------------------------------------------------------ storage data

None == "None"

Time == 0..MaxTime

\* ScheduleState, storage.rs: the two folders.
ScheduleState == {"Active", "AwaitingApproval"}

\* ApprovalMode, approval.rs.
ApprovalMode == {"Auto", "Manual"}

\* A parsed Schedule as far as the storage reads it: start and end, with
\* end > start (Schedule::from_str rejects end <= start).
Schedules == {s \in [start : Time, end : Time] : s.start < s.end}

\* generate_id: "<start as %Y%m%dT%H%M%SZ>_<uuid v4>".  The uuid is modelled
\* as a fresh number.  An id is a string, and the string a caller passes may
\* be "../<folder>/<name>" or the absolute "<base>/<folder>/<name>": `up` is
\* that folder, "" for a plain name, and `abs` tells the absolute one.
generate_id(start, uuid) == [up |-> "", abs |-> FALSE, ts |-> start, uuid |-> uuid]

\* The id "../<folder>/<name>" for the name of a file.
Traversal(folder, name) == [name EXCEPT !.up = folder]

\* The id "<base>/<folder>/<name>", the absolute path of a file without its
\* extension.
AbsoluteId(folder, name) == [name EXCEPT !.up = folder, !.abs = TRUE]

\* The ids a caller passes: those of the files on disk, one that names no
\* file, and those that step out of the folder they are joined to, by `..`
\* or by being absolute.
MissingId == generate_id(0, 0)

Ids(fs) ==
    {f.id : f \in fs} \cup {MissingId}
        \cup {Traversal(d, f.id) : d \in {"Active", "AwaitingApproval"}, f \in fs}
        \cup {AbsoluteId(d, f.id) : d \in {"Active", "AwaitingApproval"}, f \in fs}

\* folder_name
folder_name(state) == state

\* schedule_path: state_path(state).join("<id>.yaml"), the pair of the
\* state's folder and the name joined to it.  PathBuf::join with an absolute
\* name gives that name: the state's folder is dropped.
schedule_path(state, id) == [folder |-> folder_name(state), name |-> id]

\* The place a path names for the file system: "<folder>/../<other>/<name>"
\* is "<other>/<name>", and so is the absolute "<base>/<other>/<name>".
canonical(path) ==
    IF path.name.up = "" THEN path
    ELSE [folder |-> path.name.up,
          name |-> [path.name EXCEPT !.up = "", !.abs = FALSE]]

\* Whether the file system can walk a path: every folder on the way exists.
\* The way of "<folder>/../<other>/<name>" goes through <folder>; that of an
\* absolute name does not.
walkable(dirs, path) ==
    IF path.name.abs
    THEN path.name.up \in dirs
    ELSE path.name.up # "" => {path.folder, path.name.up} \subseteq dirs

\* The file at a path, as a set: empty or one file.
file_at(fs, dirs, path) ==
    {f \in fs : walkable(dirs, path) /\ [folder |-> f.state, name |-> f.id] = canonical(path)}

\* path.exists() for a schedule path.
path_exists(fs, dirs, path) == file_at(fs, dirs, path) # {}

\* ScheduleEntry { id, state, start, end }
ScheduleEntry(id, state, start, end) ==
    [id |-> id, state |-> state, start |-> start, end |-> end]

Range(s) == {s[k] : k \in 1..Len(s)}

\* path.read_dir(): the files of the folder, in an order that is not
\* specified.
RECURSIVE Orders_of(_)
Orders_of(S) ==
    IF S = {} THEN {<<>>}
    ELSE UNION {{<<x>> \o rest : rest \in Orders_of(S \ {x})} : x \in S}

read_dir(fs, state) == Orders_of({f \in fs : f.state = state})

\* entries.sort_by_key(|e| e.start): a stable sort, entries of equal start
\* keep the order they were pushed in.
RECURSIVE sort_by_key(_)
sort_by_key(entries) ==
    IF entries = <<>> THEN <<>>
    ELSE LET n == Len(entries)
             sorted == sort_by_key(SubSeq(entries, 1, n - 1))
             e == entries[n]
             before == SelectSeq(sorted, LAMBDA x : x.start <= e.start)
             after == SelectSeq(sorted, LAMBDA x : x.start > e.start)
         IN  before \o <<e>> \o after

\* The loop of get_schedules over one listing: one entry per file.
push_entries(listing, state) ==
    [k \in 1..Len(listing) |->
        ScheduleEntry(listing[k].id, state, listing[k].start, listing[k].end)]

\* get_schedules(state): one entry per file of the folder, sorted by start;
\* the results it can give, one per order of read_dir.
get_schedules(fs, state) ==
    {sort_by_key(push_entries(listing, state)) : listing \in read_dir(fs, state)}

\* A plausible slip of get_schedule: finding the id in whatever folder.
get_schedule_AnyState(fs, dirs, state, id) ==
    IF ~(\E g \in fs : g.id = id)
    THEN [ok |-> FALSE, err |-> "NotFound"]
    ELSE LET f == CHOOSE g \in fs : g.id = id
         IN  [ok |-> TRUE, entry |-> ScheduleEntry(id, state, f.start, f.end)]

\* get_schedule(state, id): NotFound when the file is missing.  The entry
\* takes the id and the state of the call, start and end of the file read.
get_schedule(fs, dirs, state, id) ==
    IF ~path_exists(fs, dirs, schedule_path(state, id))
    THEN [ok |-> FALSE, err |-> "NotFound"]
    ELSE LET f == CHOOSE g \in file_at(fs, dirs, schedule_path(state, id)) : TRUE
         IN  [ok |-> TRUE, entry |-> ScheduleEntry(id, state, f.start, f.end)]

\* A plausible slip of check_overlap: comparing with the entries of both
\* folders.
check_overlap_AllFolders(fs, start, end, exclude_id) ==
    \E f \in fs :
        /\ ~(exclude_id # None /\ f.id = exclude_id)
        /\ start < f.end /\ f.start < end

\* A plausible slip of check_overlap: closed intervals, so that touching
\* intervals overlap.
check_overlap_Closed(fs, start, end, exclude_id) ==
    \E active \in get_schedules(fs, "Active") :
        \E k \in 1..Len(active) :
            /\ ~(exclude_id # None /\ active[k].id = exclude_id)
            /\ start <= active[k].end /\ active[k].start <= end

\* A plausible slip of check_overlap: comparing against the pending folder.
check_overlap_WrongFolder(fs, start, end, exclude_id) ==
    \E active \in get_schedules(fs, "AwaitingApproval") :
        \E k \in 1..Len(active) :
            /\ ~(exclude_id # None /\ active[k].id = exclude_id)
            /\ start < active[k].end /\ active[k].start < end

\* check_overlap(start, end, exclude_id), over the files get_schedules read.
\* The answer is the same for every order of the listing.
check_overlap(fs, start, end, exclude_id) ==
    \E active \in get_schedules(fs, "Active") :
        \E k \in 1..Len(active) :
            /\ ~(exclude_id # None /\ active[k].id = exclude_id)
            /\ start < active[k].end /\ active[k].start < end

\* evaluate_approval
evaluate_approval(mode) == IF mode = "Auto" THEN "Approved" ELSE "Pending"

\* A plausible slip of is_approved: every result counts as approved.
is_approved_Always(result) == result \in {"Approved", "Pending"}

\* ApprovalResult::is_approved
is_approved(result) == result = "Approved"

\* save_schedule: create_dir_all makes the folder, fs::write creates the file
\* or replaces its content.  The id is one generate_id made, a plain name.
save_schedule(fs, state, id, sched) ==
    {f \in fs : ~(f.state = state /\ f.id = id)}
        \cup {[state |-> state, id |-> id, start |-> sched.start, end |-> sched.end]}

\* A plausible slip of move_schedule: copying, which leaves the source.
move_schedule_Copy(fs, dirs, from_state, to_state, id) ==
    LET f == CHOOSE g \in file_at(fs, dirs, schedule_path(from_state, id)) : TRUE
        to == canonical(schedule_path(to_state, id))
    IN  {g \in fs : ~(g.id = to.name /\ g.state = to.folder)}
            \cup {[f EXCEPT !.state = to.folder]}

\* move_schedule past its existence test: create_dir_all(to_folder), then
\* rename, which replaces a file of that name in the target and does nothing
\* when both paths name the same file.
move_schedule(fs, dirs, from_state, to_state, id) ==
    LET f == CHOOSE g \in file_at(fs, dirs, schedule_path(from_state, id)) : TRUE
        to == canonical(schedule_path(to_state, id))
    IN  {g \in fs : g # f /\ ~(g.id = to.name /\ g.state = to.folder)}
            \cup {[f EXCEPT !.state = to.folder]}

\* ------------------------------------------------------------ the runner

\* Option: None, or Some(v).
NoneOpt == [some |-> FALSE]

Some(v) == [some |-> TRUE, v |-> v]

\* executor::OnFail
OnFail == {"abort", "continue"}

\* parser::Command as far as the Runner's dispatch reads it: the subsystem,
\* the action and, of run_shell, on_fail; of the tracker's run, the end time,
\* none or the start of the schedule.
Commands ==
    {[module |-> "executor", action |-> "run_shell", on_fail |-> f] : f \in OnFail}
        \cup {[module |-> "executor", action |-> "stop"],
              [module |-> "tracker", action |-> "stop"],
              [module |-> "tracker", action |-> "rotator_park"],
              [module |-> "radio", action |-> "run"],
              [module |-> "radio", action |-> "stop"]}
        \cup {[module |-> "tracker", action |-> "run", end |-> e] :
                 e \in {NoneOpt, Some(0)}}

\* Result: Ok(()), or Err(e).
Ok == [ok |-> TRUE]

Err(e) == [ok |-> FALSE, err |-> e]

\* Ok(v) of a Result.
OkOf(v) == [ok |-> TRUE, v |-> v]

\* TimeExpr
Relative(d) == [kind |-> "Relative", d |-> d]

Absolute(t) == [kind |-> "Absolute", t |-> t]

\* chrono's DateTime holds the instants from DateTime::MIN_UTC to
\* DateTime::MAX_UTC, here -MaxDate..MaxDate; its Duration holds every
\* difference of two instants and more, and `DateTime + Duration` panics
\* when the sum is no instant.
MaxDate == 2

DateTimes == (0 - MaxDate)..MaxDate

Durations == (0 - 2 * MaxDate)..(2 * MaxDate)

\* The outcome of a call that panics.
Panicked == Err([kind |-> "panicked"])

\* impl Add<Duration> for DateTime
add_duration(t, d) ==
    IF t + d \in DateTimes THEN OkOf(t + d) ELSE Panicked

\* TimeExpr::resolve
resolve(expr, start) ==
    IF expr.kind = "Relative" THEN add_duration(start, expr.d) ELSE OkOf(expr.t)

\* Step.time as the Runner reads it: absent, or a time counted from
\* schedule.start, the instant 0.  The instant it resolves to may be the start
\* of the run or after it, may be before the instant of an earlier step, and
\* may be out of the range of chrono's DateTime (T+1000000years parses).
StepTimes == {NoneOpt, Some(0), Some(1), Some(MaxDate + 1)}

StepSet == [time : StepTimes, cmd : Commands]

SeqsUpTo(S, n) == UNION {[1..k -> S] : k \in 0..n}

\* The exit codes a child ends with.
ExitCodes == {0, 3}

\* The final wait of run_internal: Duration::from_millis(100).
DrainTicks == 1

\* The monitor's sleep between polls: Duration::from_millis(100).
PollTicks == 1

\* STEP, the spacing of the samples of the tracker's worker:
\* Duration::seconds(1), on the clock of the run.
StepTicks == 10

StepIndex == 0..(MaxSteps - 1)

NoChild == [slot |-> "unborn", st |-> "none", code |-> 0]

NoMonitor == [pc |-> "unborn", wake |-> 0, on_fail |-> "abort"]

\* ExecutionLog::new
NewLog == [state |-> "Running", completed_at |-> NoneOpt, step_results |-> <<>>]

\* serde_yaml of a value: a tagged scalar, and null for the None of an
\* Option.
LogNull == [tag |-> "null"]

LogScalar(tag, v) == [tag |-> tag, v |-> v]

log_option(o, tag) == IF o.some THEN LogScalar(tag, o.v) ELSE LogNull

option_of(y) == IF y.tag = "null" THEN NoneOpt ELSE Some(y.v)

\* A plausible slip of the serialization: the error of a StepResult is
\* skipped.
to_string_NoError(l) ==
    [state |-> LogScalar("str", l.state),
     completed_at |-> log_option(l.completed_at, "timestamp"),
     step_results |->
         [n \in 1..Len(l.step_results) |->
             [step_index |-> LogScalar("int", l.step_results[n].step_index),
              command_type |-> LogScalar("str", l.step_results[n].command_type),
              success |-> LogScalar("bool", l.step_results[n].success),
              error |-> LogNull]]]

\* serde_yaml::to_string of an ExecutionLog (derive(Serialize)): the mapping
\* of its fields.
to_string(l) ==
    [state |-> LogScalar("str", l.state),
     completed_at |-> log_option(l.completed_at, "timestamp"),
     step_results |->
         [n \in 1..Len(l.step_results) |->
             [step_index |-> LogScalar("int", l.step_results[n].step_index),
              command_type |-> LogScalar("str", l.step_results[n].command_type),
              success |-> LogScalar("bool", l.step_results[n].success),
              error |-> log_option(l.step_results[n].error, "str")]]]

\* serde_yaml::from_str into an ExecutionLog (derive(Deserialize)).
log_from_str(y) ==
    [state |-> y.state.v,
     completed_at |-> option_of(y.completed_at),
     step_results |->
         [n \in 1..Len(y.step_results) |->
             [step_index |-> y.step_results[n].step_index.v,
              command_type |-> y.step_results[n].command_type.v,
              success |-> y.step_results[n].success.v,
              error |-> option_of(y.step_results[n].error)]]]

\* ExecutionLog::save: the content of execution_log.yaml after fs::write.
save(l) == Some(to_string(l))

\* What fs::write leaves of a file when it fails after it has opened it: the
\* open truncates, and what was written before the failure is no log.
Fragment == [tag |-> "fragment"]

\* fs::write ends in one of three ways: the file holds the contents and Ok is
\* returned; the file was opened, so truncated, and an error is returned; the
\* file could not be opened and an error is returned.
WriteOutcomes == {"written", "truncated", "refused"}

\* The outcomes of a write into a directory: only the last when the
\* directory is gone.
outcomes_in(dir_exists) == IF dir_exists THEN WriteOutcomes ELSE {"refused"}

\* The file after ExecutionLog::save of l ended with the outcome, the file
\* having been `file` (None when there was none).
fs_write(file, l, outcome) ==
    IF outcome = "written" THEN save(l)
    ELSE IF outcome = "truncated" THEN Some(Fragment)
    ELSE file

\* What ExecutionLog::save returns.
write_result(outcome) == IF outcome = "written" THEN Ok ELSE Err([kind |-> "Io"])

\* The file holds the log l.
holds_log(file, l) == file.some /\ file.v # Fragment /\ log_from_str(file.v) = l

\* The execution_log.yaml that a finished earlier run has left.
OldLogs ==
    {to_string([state |-> s, completed_at |-> Some(0), step_results |-> <<>>]) :
        s \in {"Completed", "Failed"}}

\* AbortSignal { step, reason }, the reason being
\* "Process failed with exit code <code>: <cmd>"; the command text of a step
\* is named by the step.
AbortSignal(step, exit_code) ==
    [step |-> step,
     reason |-> [text |-> "Process failed with exit code", code |-> exit_code, cmd |-> step]]

\* The step of index i (Rust counts from 0).
step_at(i) == steps[i + 1]

\* A plausible slip of the loop: stepping by two, which skips a step.
next_index_Skip(i) == i + 2

\* The loop of run_internal moves to the step after i.
next_index(i) == i + 1

\* TrackerMode
Idle == [name |-> "Idle"]

Running(end, tle_name) == [name |-> "Running", end |-> end, tle_name |-> tle_name]

\* The worker thread before Tracker::run spawned it.
NoWorker == [pc |-> "none", end |-> NoneOpt, traj |-> <<>>, k |-> 0, err |-> FALSE]

\* Tracker::new: mode Idle, no sample, no trajectory, no worker.
TrackerNew ==
    /\ status = [mode |-> Idle, last_sample |-> NoneOpt, trajectory |-> <<>>]
    /\ wk = NoWorker
    /\ stop_tx = FALSE
    /\ tpc = "idle"
    /\ tret = NoneOpt

\* ------------------------------------------------------------ the parser
\* A schedule document is the tree of values serde_yaml reads.  A string is
\* kept by what its text is: an RFC 3339 timestamp (a local time and its
\* offset from UTC), `T` with a signed duration, a timestamp with a signed
\* duration, `$` with the name of a variable, or any other text.  Instants
\* and durations are counted in hours.

\* The local times of the timestamps written in a document run to this.
MaxInstant == 1

\* The offsets from UTC written in a timestamp: `Z` and `+01:00`.
Offsets == {0, 1}

YNumber == [kind |-> "number"]

YString(text) == [kind |-> "string", text |-> text]

\* "2026-01-12T<local>:00:00+<offset>:00"
Rfc3339(local, offset) == [form |-> "rfc3339", local |-> local, offset |-> offset]

\* A duration as written: one that humantime reads as d hours, or a text
\* it rejects.  "1h" is one hour; "1000000years" is a Duration that, added
\* to any timestamp of a document, is out of the range of DateTime.
DurationTexts == {NoneOpt, Some(1), Some(2 * MaxDate)}

\* "T+<duration>", "T-<duration>"
RelativeText(neg, dur) == [form |-> "relative", neg |-> neg, dur |-> dur]

\* "<timestamp> + <duration>", "<timestamp> - <duration>"
OffsetText(base, neg, dur) == [form |-> "offset", base |-> base, neg |-> neg, dur |-> dur]

\* "$<name>"
Dollar(name) == [form |-> "dollar", name |-> name]

\* A text that is none of these, such as "not-a-date".
OtherText == [form |-> "other"]

\* The names a document gives to variables.
VarNames == {"start", "end", "n"}

\* ParseError
Validation(msg, name) == [kind |-> "Validation", msg |-> msg, name |-> name]

StepError(i, msg) == [kind |-> "Step", index |-> i, msg |-> msg]

Yaml == [kind |-> "Yaml"]

\* A plausible slip of the conversion: the local time taken for the instant,
\* the offset from UTC dropped.
parse_from_rfc3339_Local(text) ==
    IF text.form = "rfc3339" THEN Some(text.local) ELSE NoneOpt

\* DateTime::parse_from_rfc3339(..).with_timezone(&Utc): the instant of a
\* timestamp in UTC, or none for a text that is no timestamp.
parse_from_rfc3339(text) ==
    IF text.form = "rfc3339" THEN Some(text.local - text.offset) ELSE NoneOpt

\* parse_duration
parse_duration(dur) ==
    IF dur.some THEN OkOf(dur.v) ELSE Err("invalid duration")

\* parse_time, parser.rs:150-152: `base.with_timezone(&Utc) + dur`, or
\* `+ -dur`, for a text whose timestamp and duration both parse.
offset_sum(text) ==
    add_duration(parse_from_rfc3339(text.base).v,
                 IF text.neg THEN 0 - parse_duration(text.dur).v
                 ELSE parse_duration(text.dur).v)

\* Whether parse_time panics: the text is a timestamp with a duration and
\* their sum is no DateTime.
parse_time_panics(text) ==
    /\ text.form = "offset"
    /\ parse_from_rfc3339(text.base).some
    /\ parse_duration(text.dur).ok
    /\ ~offset_sum(text).ok

\* parse_time: the relative form, the timestamp with a duration, the plain
\* timestamp, in this order.  The sum of the timestamp and the duration
\* (parser.rs:150-152) panics when it is no DateTime.
parse_time(text) ==
    IF text.form = "relative"
    THEN LET dur == parse_duration(text.dur)
         IN  IF dur.ok
             THEN OkOf(Relative(IF text.neg THEN 0 - dur.v ELSE dur.v))
             ELSE dur
    ELSE IF text.form = "offset" /\ parse_from_rfc3339(text.base).some
    THEN LET dur == parse_duration(text.dur)
         IN  IF dur.ok
             THEN IF parse_time_panics(text)
                  THEN Panicked
                  ELSE OkOf(Absolute(offset_sum(text).v))
             ELSE dur
    ELSE LET t == parse_from_rfc3339(text)
         IN  IF t.some THEN OkOf(Absolute(t.v)) ELSE Err("invalid timestamp")

\* parse_time_variable: the variable must be there, be a string, and be a
\* timestamp.
parse_time_variable(variables, name) ==
    LET v == variables[name]
    IN  IF ~v.some \/ v.v.kind # "string"
        THEN Err(Validation("missing mandatory variable", name))
        ELSE LET t == parse_from_rfc3339(v.v.text)
             IN  IF t.some
                 THEN OkOf(t.v)
                 ELSE Err(Validation("invalid datetime", name))

\* resolve_value: a string that is `$name` of a variable that exists becomes
\* the variable's value, of whatever type; the other texts of a document
\* hold no `$name` and stay as they are, and so does a number.
resolve_value(value, variables) ==
    IF /\ value.kind = "string"
       /\ value.text.form = "dollar"
       /\ value.text.name \in DOMAIN variables
       /\ variables[value.text.name].some
    THEN variables[value.text.name].v
    ELSE value

\* parse_step, parser.rs:97-103: the time of a step.  The value of `time` is
\* resolved; as_str makes None of a value that is not a string, and the
\* step then has no time.  The result is parse_time's: Ok, its error, or its
\* panic.
step_time(value, variables) ==
    IF ~value.time.some
    THEN OkOf(NoneOpt)
    ELSE LET v == resolve_value(value.time.v, variables)
         IN  IF v.kind # "string"
             THEN OkOf(NoneOpt)
             ELSE LET r == parse_time(v.text)
                  IN  IF r.ok THEN OkOf(Some(r.v)) ELSE r

\* Whether parse_time panics for the time of a step.
step_time_panics(value, variables) ==
    /\ value.time.some
    /\ resolve_value(value.time.v, variables).kind = "string"
    /\ parse_time_panics(resolve_value(value.time.v, variables).text)

\* The subsystems a step may name.
Modules == {"tracker", "executor", "radio"}

\* parse_step: a mapping; its time; the first key that is not `time`, which
\* must be a string naming a subsystem; the value of that key decoded into
\* the subsystem's command.  A mapping is its time and its other entries in
\* the order of the document.  A panic of parse_time unwinds through
\* parse_step.
parse_step(i, value, variables) ==
    IF value.kind # "mapping"
    THEN Err(StepError(i, "expected mapping"))
    ELSE LET time == step_time(value, variables)
         IN  IF step_time_panics(value, variables)
             THEN Panicked
             ELSE IF ~time.ok
             THEN Err(StepError(i, time.err))
             ELSE IF value.entries = <<>>
             THEN Err(StepError(i, "no command found"))
             ELSE LET entry == value.entries[1]
                  IN  IF ~entry.is_str
                      THEN Err(StepError(i, "command must be string"))
                      ELSE IF entry.key \notin Modules
                      THEN Err(StepError(i, "unknown module"))
                      ELSE IF ~entry.decodes
                      THEN Err(Yaml)
                      ELSE OkOf([time |-> time.v,
                                 command |-> [module |-> entry.key]])

\* A mapping with none of the names of the model in it.
EmptyVariables == [start |-> NoneOpt, end |-> NoneOpt, n |-> NoneOpt]

\* parser.rs:58-62: `root.get("variables")`, serde_yaml::from_value into a
\* HashMap<String, Value>, `?`, unwrap_or_default.  No `variables` gives the
\* empty map; so does null, which serde_yaml decodes as a map with nothing
\* in it; a mapping whose keys are all strings gives its entries; a scalar,
\* a sequence, or a mapping with a key that is no string is refused with a
\* Yaml error.
variables_from_value(d) ==
    IF d.kind \in {"absent", "null"}
    THEN OkOf(EmptyVariables)
    ELSE IF d.kind = "mapping" /\ ~d.other_key
    THEN OkOf(d.variables)
    ELSE Err(Yaml)

\* Schedule::from_str: the text read as YAML; the variables; start and
\* end, their order; then the steps in their order, the first step that
\* fails giving the error, or the panic that ends the call.
from_str(d) ==
    IF ~d.yaml THEN Err(Yaml)
    ELSE IF ~variables_from_value(d).ok THEN variables_from_value(d)
    ELSE
    LET variables == variables_from_value(d).v
        start == parse_time_variable(variables, "start")
        end == parse_time_variable(variables, "end")
    IN  IF ~start.ok THEN start
        ELSE IF ~end.ok THEN end
        ELSE IF end.v <= start.v
        THEN Err(Validation("'end' must be after 'start'", "end"))
        ELSE IF ~d.steps.some
        THEN Err(StepError(0, "missing 'steps'"))
        ELSE LET results == [n \in 1..Len(d.steps.v) |->
                                parse_step(n - 1, d.steps.v[n], variables)]
                 failed == {n \in 1..Len(d.steps.v) : ~results[n].ok}
             IN  IF failed # {}
                 THEN results[CHOOSE n \in failed : \A m \in failed : n <= m]
                 ELSE OkOf([start |-> start.v,
                            end |-> end.v,
                            variables |-> variables,
                            steps |-> [n \in 1..Len(d.steps.v) |-> results[n].v]])

\* The values a document gives to start and to end: none, a number, a text
\* that is no timestamp, a timestamp.
TimeVariableValues ==
    {NoneOpt, Some(YNumber), Some(YString(OtherText))}
        \cup {Some(YString(Rfc3339(l, o))) : l \in 0..MaxInstant, o \in Offsets}

\* The variables of a document: start, end, and n, a number when it is there.
VariableMaps ==
    {[start |-> s, end |-> e, n |-> x] :
        s \in TimeVariableValues, e \in TimeVariableValues,
        x \in {NoneOpt, Some(YNumber)}}

\* The values a step gives to `time`: none, a number, "T+1h",
\* "2026-01-12T00:00:00Z + 1h", "2026-01-12T00:00:00Z + 1000000years", a
\* text that is no time, "$n", "$start".
StepTimeValues ==
    {NoneOpt,
     Some(YNumber),
     Some(YString(RelativeText(FALSE, Some(1)))),
     Some(YString(OffsetText(Rfc3339(0, 0), FALSE, Some(1)))),
     Some(YString(OffsetText(Rfc3339(0, 0), FALSE, Some(2 * MaxDate)))),
     Some(YString(OtherText)),
     Some(YString(Dollar("n"))),
     Some(YString(Dollar("start")))}

\* An entry of a step's mapping besides `time`.
Entry(key, is_str, decodes) == [key |-> key, is_str |-> is_str, decodes |-> decodes]

\* The entries of a step besides `time`, in the order of the document.
StepEntries ==
    {<<>>,
     <<Entry("tracker", TRUE, TRUE)>>,
     <<Entry("radio", TRUE, FALSE)>>,
     <<Entry("foo", TRUE, TRUE)>>,
     <<Entry("7", FALSE, TRUE)>>,
     <<Entry("tracker", TRUE, TRUE), Entry("executor", TRUE, TRUE)>>,
     <<Entry("foo", TRUE, TRUE), Entry("executor", TRUE, TRUE)>>}

\* A step that is a mapping: its `time` and its other entries.
StepMapping(time, entries) == [kind |-> "mapping", time |-> time, entries |-> entries]

\* The steps of a document: a value that is no mapping; a mapping with any
\* of the times and a command; a mapping with any of the entries and no
\* time; a mapping with a text that is no time and no command.
StepValues ==
    {[kind |-> "scalar"]}
        \cup {StepMapping(t, <<Entry("tracker", TRUE, TRUE)>>) : t \in StepTimeValues}
        \cup {StepMapping(NoneOpt, es) : es \in StepEntries}
        \cup {StepMapping(Some(YString(OtherText)), <<>>)}

\* A document: whether its text is YAML at all; what it has under
\* `variables` (nothing, null, a scalar, a sequence, a mapping); for a
\* mapping, whether it has a key that is no string, such as `1: x`, and the
\* values of its keys start, end and n; and `steps`, absent (or no sequence)
\* or a sequence.  A document whose root is no mapping has no `variables`
\* and no `steps`.
Document(yaml, kind, other_key, variables, step_list) ==
    [yaml |-> yaml, kind |-> kind, other_key |-> other_key,
     variables |-> variables, steps |-> step_list]

\* A text that serde_yaml::from_str refuses (parser.rs:56).
NotYaml == Document(FALSE, "absent", FALSE, EmptyVariables, NoneOpt)

\* What `steps` is: absent (or no sequence), or a sequence of at most n steps.
StepLists(n) == {NoneOpt} \cup {Some(q) : q \in SeqsUpTo(StepValues, n)}

\* The documents whose `variables` is a mapping with string keys only,
\* with any steps.
MappingDocuments ==
    {Document(TRUE, "mapping", FALSE, v, s) :
        v \in VariableMaps, s \in StepLists(MaxSteps)}

\* The documents with no `variables`, or with null, a scalar or a sequence
\* there, with any steps.
BareDocuments ==
    {Document(TRUE, k, FALSE, EmptyVariables, s) :
        k \in {"absent", "null", "scalar", "sequence"},
        s \in StepLists(MaxSteps)}

\* The documents whose `variables` is a mapping with a key that is no
\* string, with at most one step.
OtherKeyDocuments ==
    {Document(TRUE, "mapping", TRUE, v, s) :
        v \in VariableMaps, s \in StepLists(1)}

\* A document with nothing in it.
EmptyDocument == Document(TRUE, "absent", FALSE, EmptyVariables, NoneOpt)

\* The state of the parser's variables in a specification with no parse.
NoDocument ==
    /\ doc = EmptyDocument
    /\ parsed = NoneOpt

\* No function is called on its own.
NoCall ==
    /\ input = NoneOpt
    /\ output = NoneOpt

\* The state of the parser's and the call's variables in a specification
\* of another part.
NoParse == NoDocument /\ NoCall

\* A document is given to Schedule::from_str.
ParserInit ==
    /\ \/ doc \in MappingDocuments
       \/ doc \in BareDocuments
       \/ doc \in OtherKeyDocuments
       \/ doc = NotYaml
    /\ parsed = NoneOpt
    /\ NoCall

\* Schedule::from_str returns.
Parse ==
    /\ parsed = NoneOpt
    /\ parsed' = Some(from_str(doc))
    /\ UNCHANGED <<doc, callVars, storageVars, runnerVars, trackerVars>>

ParserNext == Parse

\* ------------------------------------------- inline `$name` substitution
\* A string is a sequence of pieces: "$", " ", "x" are characters, "end" and
\* "point" runs of letters, so that the name "end" is a prefix of the name
\* "endpoint", and "E" and "P" the texts of the two variables' values.

\* The longest string of a step.
MaxText == 4

Pieces == {"$", "end", "point", " ", "x"}

Strings == UNION {[1..n -> Pieces] : n \in 0..MaxText}

\* The names of the variables: `end`, which every schedule has, and
\* `endpoint`.
EndName == <<"end">>
EndpointName == <<"end", "point">>

\* The value of a variable: a scalar, with its text, or a sequence or
\* mapping.
Scalar(text) == [scalar |-> TRUE, text |-> text]
NonScalar == [scalar |-> FALSE]

\* The variables of a document, a HashMap from names to values.
VariableTables ==
    {[n \in {EndName} |-> Scalar(<<"E">>)]} \cup
    {[n \in {EndName, EndpointName} |->
         IF n = EndName THEN Scalar(<<"E">>) ELSE v] : v \in {Scalar(<<"P">>), NonScalar}}

\* The orders in which the iteration of a HashMap can visit its keys.
Orders(vars) ==
    {o \in [1..Cardinality(DOMAIN vars) -> DOMAIN vars] :
        \A i, j \in DOMAIN o : i # j => o[i] # o[j]}

\* str::trim for the whitespace " ".
RECURSIVE trim_start(_)
trim_start(s) == IF s # <<>> /\ s[1] = " " THEN trim_start(Tail(s)) ELSE s

RECURSIVE trim_end(_)
trim_end(s) ==
    IF s # <<>> /\ s[Len(s)] = " " THEN trim_end(SubSeq(s, 1, Len(s) - 1)) ELSE s

trim(s) == trim_end(trim_start(s))

\* str::replace: every match of the pattern, found from left to right and
\* not overlapping, is replaced.
RECURSIVE replace(_, _, _)
replace(s, pattern, rep) ==
    IF Len(s) < Len(pattern)
    THEN s
    ELSE IF SubSeq(s, 1, Len(pattern)) = pattern
    THEN rep \o replace(SubSeq(s, Len(pattern) + 1, Len(s)), pattern, rep)
    ELSE <<s[1]>> \o replace(Tail(s), pattern, rep)

\* simple_to_string: the text of a scalar, None for the others.
simple_to_string(val) == IF val.scalar THEN Some(val.text) ELSE NoneOpt

\* resolve_value, parser.rs:197-204: `for (name, val) in vars`, in the order
\* the map is visited; the pattern is "$" followed by the name.
RECURSIVE inline_substitution(_, _, _)
inline_substitution(result, order, vars) ==
    IF order = <<>>
    THEN result
    ELSE LET name == Head(order)
             rep == simple_to_string(vars[name])
         IN  inline_substitution(
                 IF rep.some THEN replace(result, <<"$">> \o name, rep.v) ELSE result,
                 Tail(order), vars)

\* resolve_value for a string, parser.rs:188-205: a trimmed text that starts
\* with `$`, has no space and names a variable becomes the variable's value;
\* every other string goes through the inline substitution.
resolve_value_String(s, vars, order) ==
    LET t == trim(s)
    IN  IF /\ t # <<>>
           /\ t[1] = "$"
           /\ \A i \in DOMAIN t : t[i] # " "
           /\ Tail(t) \in DOMAIN vars
        THEN [kind |-> "value", v |-> vars[Tail(t)]]
        ELSE [kind |-> "string", text |-> inline_substitution(s, order, vars)]

\* resolve_value is called for a string of a step and the document's
\* variables.
SubstituteInit ==
    /\ input \in {[text |-> s, vars |-> v] : s \in Strings, v \in VariableTables}
    /\ output = NoneOpt
    /\ NoDocument

\* resolve_value returns; the map was visited in one of its orders.
Substitute ==
    /\ output = NoneOpt
    /\ \E order \in Orders(input.vars) :
           output' = Some([order |-> order,
                           value |-> resolve_value_String(input.text, input.vars, order)])
    /\ UNCHANGED <<input, doc, parsed, storageVars, runnerVars, trackerVars>>

\* ------------------------------------------------------ predict_passes
\* The clock of a prediction counts eighths of a second: the halves that
\* refine_crossing takes of a coarse step that begins on a quarter of a
\* minute are whole numbers of them down to the last.

\* The longest window, in minutes.
MaxMinutes == 2

TicksPerSecond == 8

COARSE_STEP_SECONDS == 60

FINE_STEP_SECONDS == 1

HORIZON_ELEVATION == 0

\* Duration::seconds(s)
seconds(s) == s * TicksPerSecond

\* Duration::num_seconds: the whole seconds, rounded towards zero.
num_seconds(d) == IF d >= 0 THEN d \div TicksPerSecond ELSE 0 - ((0 - d) \div TicksPerSecond)

\* The instants that begin a quarter of a minute.
QuarterMinutes(from, to) == {seconds(15 * k) : k \in from..to}

\* The satellite's flight over the station: none, or a rise and a later set.
Flights ==
    {NoneOpt} \cup
    {Some([rise |-> p[1], set |-> p[2]]) :
        p \in {q \in QuarterMinutes(0 - 6, 4 * MaxMinutes + 4)
                      \X QuarterMinutes(0 - 5, 4 * MaxMinutes + 5) : q[1] < q[2]}}

\* propagate_sample(.., t, ..).elevation_deg for the flight: below the
\* horizon outside the flight, and from the horizon up to the middle of the
\* flight and down again inside it.
elevation_deg(flight, t) ==
    IF flight.some /\ flight.v.rise <= t /\ t <= flight.v.set
    THEN IF t - flight.v.rise <= flight.v.set - t
         THEN t - flight.v.rise
         ELSE flight.v.set - t
    ELSE 0 - 1

\* refine_crossing: the binary search between before and after, which
\* returns high.
RECURSIVE refine_crossing(_, _, _, _)
refine_crossing(flight, low, high, is_aos) ==
    IF num_seconds(high - low) > FINE_STEP_SECONDS
    THEN LET mid == low + (high - low) \div 2
             above == elevation_deg(flight, mid) >= HORIZON_ELEVATION
         IN  IF is_aos = above
             THEN refine_crossing(flight, low, mid, is_aos)
             ELSE refine_crossing(flight, mid, high, is_aos)
    ELSE high

\* Pass { aos, los, tca, max_elevation_deg, .. }
Pass(aos, los, tca, max_el) ==
    [aos |-> aos, los |-> los, tca |-> tca, max_elevation_deg |-> max_el]

\* The locals of predict_passes before its loop.
ScanStart(start) ==
    [cursor |-> start, prev_visible |-> FALSE, pass_start |-> NoneOpt, max_el |-> 0,
     max_el_time |-> start, passes |-> <<>>]

\* One turn of the loop of predict_passes, pass_finder.rs:39-97.
scan_step(flight, min_elevation, st) ==
    LET cursor == st.cursor
        el == elevation_deg(flight, cursor)
        visible == el >= HORIZON_ELEVATION
        coarse_step == seconds(COARSE_STEP_SECONDS)
        next == [st EXCEPT !.prev_visible = visible, !.cursor = cursor + coarse_step]
    IN  IF visible /\ ~st.prev_visible
        THEN [next EXCEPT
                 !.pass_start =
                     Some(refine_crossing(flight, cursor - coarse_step, cursor, TRUE)),
                 !.max_el = el,
                 !.max_el_time = cursor]
        ELSE IF visible /\ st.pass_start.some
        THEN IF el > st.max_el
             THEN [next EXCEPT !.max_el = el, !.max_el_time = cursor]
             ELSE next
        ELSE IF ~visible /\ st.prev_visible /\ st.pass_start.some
        THEN LET los == refine_crossing(flight, cursor - coarse_step, cursor, FALSE)
             IN  [next EXCEPT
                     !.passes =
                         IF st.max_el >= min_elevation
                         THEN Append(st.passes,
                                     Pass(st.pass_start.v, los, st.max_el_time, st.max_el))
                         ELSE st.passes,
                     !.pass_start = NoneOpt,
                     !.max_el = 0]
        ELSE next

\* The loop of predict_passes: while cursor <= end.
RECURSIVE scan(_, _, _, _)
scan(flight, end, min_elevation, st) ==
    IF st.cursor <= end
    THEN scan(flight, end, min_elevation, scan_step(flight, min_elevation, st))
    ELSE st

\* predict_passes, for a satellite whose propagation succeeds: the passes
\* of the loop, and the pass in progress at the end of the window.
predict_passes(flight, start, end, min_elevation) ==
    LET st == scan(flight, end, min_elevation, ScanStart(start))
    IN  IF st.pass_start.some /\ st.max_el >= min_elevation
        THEN Append(st.passes, Pass(st.pass_start.v, end, st.max_el_time, st.max_el))
        ELSE st.passes

\* predict_passes is called for a window and a least elevation.
PassesInit ==
    /\ input \in {[flight |-> f, start |-> s, end |-> e, min_elevation |-> m] :
                     f \in Flights,
                     s \in QuarterMinutes(0, 1),
                     e \in QuarterMinutes(0 - 1, 4 * MaxMinutes),
                     m \in {0, seconds(20)}}
    /\ output = NoneOpt
    /\ NoDocument

\* predict_passes returns.
Passes ==
    /\ output = NoneOpt
    /\ output' = Some(predict_passes(input.flight, input.start, input.end,
                                     input.min_elevation))
    /\ UNCHANGED <<input, doc, parsed, storageVars, runnerVars, trackerVars>>

\* ------------------------------------------------- TimeExpr::resolve
\* The time expressions parse_time makes.
TimeExprs == {Relative(d) : d \in Durations} \cup {Absolute(t) : t \in DateTimes}

\* resolve is called with a time expression and the start of a schedule.
ResolveInit ==
    /\ input \in {[expr |-> e, start |-> s] : e \in TimeExprs, s \in DateTimes}
    /\ output = NoneOpt
    /\ NoDocument

\* TimeExpr::resolve returns, or panics.
Resolve ==
    /\ output = NoneOpt
    /\ output' = Some(resolve(input.expr, input.start))
    /\ UNCHANGED <<input, doc, parsed, storageVars, runnerVars, trackerVars>>

\* ------------------------------------------------- the azimuth of a sample
\* Angles are counted in steps of which AngleSteps make a hundredth of a
\* degree; a stored value, rounded to 2 decimals, is counted in hundredths.
AngleSteps == 4

\* rem_euclid(360.0)
FullTurn == 360

\* round2: (value * 100.0).round() / 100.0
Hundred == 100

\* The steps of a degree.
Degree == Hundred * AngleSteps

\* The bits of the fraction of an f64.
Mantissa == 52

\* An f64 near an angle is [n, e]: n is the angle in steps it is nearest to,
\* and e its distance from n steps (the value less the n steps), counted in
\* Degree-ths of the unit in the last place of n steps.
F64(n, e) == [n |-> n, e |-> e]

\* The binary exponent of the quotient n / d, for n, d > 0.
RECURSIVE exponent(_, _)
exponent(n, d) ==
    IF n >= 2 * d THEN exponent(n, 2 * d) + 1
    ELSE IF n < d THEN exponent(2 * n, d) - 1
    ELSE 0

\* 2^k, and 2^s modulo d.
RECURSIVE pow2(_)
pow2(k) == IF k = 0 THEN 1 ELSE 2 * pow2(k - 1)

RECURSIVE pow2_mod(_, _)
pow2_mod(s, d) == IF s = 0 THEN 1 % d ELSE (2 * pow2_mod(s - 1, d)) % d

\* x * 2^j > d, without forming the product.
RECURSIVE exceeds(_, _, _)
exceeds(x, j, d) ==
    IF x <= 0 THEN FALSE
    ELSE IF x > d THEN TRUE
    ELSE IF j = 0 THEN FALSE
    ELSE exceeds(2 * x, j - 1, d)

\* The f64 nearest to a steps: a / Degree is cut to Mantissa bits after its
\* leading bit, to the nearest.
f64_of(a) ==
    IF a = 0 THEN F64(0, 0)
    ELSE LET m == IF a > 0 THEN a ELSE 0 - a
             s == Mantissa - exponent(m, Degree)
             r == (m * pow2_mod(s, Degree)) % Degree
             e == IF 2 * r < Degree THEN 0 - r ELSE Degree - r
         IN  F64(a, IF a > 0 THEN e ELSE 0 - e)

\* What atan2(east, north).to_degrees() returns: an f64 from -180 to 180
\* degrees.
Atan2Degrees ==
    {f64_of(a) : a \in (0 - (FullTurn \div 2) * Degree)..((FullTurn \div 2) * Degree)}

\* r + rhs of f64::rem_euclid for a negative r: the sum of the f64 x and the
\* whole number turn, rounded to the unit in the last place of the sum, a tie
\* to the even neighbour.  x was rounded before at its own, finer unit, so
\* that the sum can lie exactly between two neighbours.
f64_add(x, turn) ==
    LET m == 0 - x.n
        b == x.n + turn * Degree
        t == Mantissa - exponent(b, Degree)
        j == exponent(b, Degree) - exponent(m, Degree)
        rho == (m * pow2_mod(t, Degree)) % Degree
        odd == (m * pow2_mod(t, 2 * Degree)) % (2 * Degree) >= Degree
        up == IF j = 0 THEN 2 * rho > Degree
              ELSE IF exceeds(2 * rho - Degree, j, Degree) THEN TRUE
              ELSE IF exceeds(Degree - 2 * rho, j, Degree) THEN FALSE
              ELSE odd
    IN  F64(b, IF up THEN rho - Degree ELSE rho)

\* f64::rem_euclid of an angle x by a modulus m in degrees, for an x between
\* -m and m: x % m is x, and m is added to a negative x.
rem_euclid(x, m) == IF x.n < 0 THEN f64_add(x, m) ELSE x

\* round2: (value * 100.0).round() / 100.0, the result in hundredths.  round()
\* takes a half away from zero; a value whose steps are half a hundredth is
\* an f64 a little below or above the half, and its product with 100.0,
\* rounded to an f64, is below the half when the value is below by more than
\* half the unit in the last place of the product (a quarter, at the half
\* that is a power of 2).
round2(value) ==
    IF value.n = 0 THEN 0
    ELSE LET m == IF value.n > 0 THEN value.n ELSE 0 - value.n
             em == IF value.n > 0 THEN value.e ELSE 0 - value.e
             k == m \div AngleSteps
             thr == AngleSteps * pow2(exponent(m, AngleSteps) - exponent(m, Degree))
             below == em < 0 /\ (IF k = 0 THEN (0 - em) * 4 > thr
                                          ELSE (0 - em) * 2 > thr)
             res == IF 2 * (m % AngleSteps) # AngleSteps
                    THEN (2 * m + AngleSteps) \div (2 * AngleSteps)
                    ELSE IF below THEN k ELSE k + 1
         IN  IF value.n > 0 THEN res ELSE 0 - res

\* propagate_sample, trajectory.rs:70 and 99: the azimuth_deg of the sample.
azimuth_deg(atan2_degrees) == round2(rem_euclid(atan2_degrees, FullTurn))

\* propagate_sample is called for a direction of the satellite.
AzimuthInit ==
    /\ input \in {[atan2 |-> x] : x \in Atan2Degrees}
    /\ output = NoneOpt
    /\ NoDocument

\* propagate_sample returns the sample.
Azimuth ==
    /\ output = NoneOpt
    /\ output' = Some(azimuth_deg(input.atan2))
    /\ UNCHANGED <<input, doc, parsed, storageVars, runnerVars, trackerVars>>

\* The state of the runner's variables in a specification with no run.
NoRun ==
    /\ steps = <<>>
    /\ now = 0
    /\ pc = "done"
    /\ idx = 0
    /\ deadline = 0
    /\ abort_rx = <<>>
    /\ rx_alive = FALSE
    /\ processes = <<>>
    /\ child = [k \in StepIndex |-> NoChild]
    /\ mon = [k \in StepIndex |-> NoMonitor]
    /\ log = NewLog
    /\ saved = NoneOpt
    /\ artifacts_dir = FALSE
    /\ cmd_result = NoneOpt
    /\ run_result = NoneOpt
    /\ worker = FALSE
    /\ dispatched = <<>>
    /\ returned = <<>>

\* The instant of a step that has a time: time_expr.resolve(schedule.start),
\* the start being instant 0 and the time counted from it; chrono panics
\* when the sum is no DateTime.
resolve_step(step) == resolve(Relative(step.time.v), 0)

\* Whether the head of the loop panics for the step of index i.
resolve_panics(i) ==
    /\ i < Len(steps)
    /\ step_at(i).time.some
    /\ ~resolve_step(step_at(i)).ok

\* A plausible slip of run_internal: no wait before a step.
time_until_next_step_Zero(step, t) == 0

\* run_internal, runner.rs:89-99: time_until_next_step; a negative duration
\* becomes zero.
time_until_next_step(step, t) ==
    IF step.time.some
    THEN IF resolve_step(step).v - t >= 0 THEN resolve_step(step).v - t ELSE 0
    ELSE 0

\* The tracker a caller hands to Runner::new while a worker runs: Run has
\* returned some time ago, the handle is held, and the worker has published
\* the first sample of an open-ended window and waits for the instant of the
\* next, a STEP later.  Its TLE had a name line or had none.
TrackerRunning ==
    /\ \E tle_name \in {NoneOpt, Some("name")} :
        status = [mode |-> Running(NoneOpt, tle_name), last_sample |-> Some(0),
                  trajectory |-> <<0, StepTicks>>]
    /\ wk = [NoWorker EXCEPT !.pc = "point", !.traj = <<0, StepTicks>>, !.k = 2]
    /\ stop_tx = FALSE
    /\ tpc = "idle"
    /\ tret = Some(Ok)

\* Runner::new with a parsed schedule and the tracker of its caller, new or
\* with a worker running, then run() to the head of its loop.
\* ArtifactsManager::new makes the directory when it is missing and leaves
\* what an existing one holds: no execution_log.yaml, or the one of an
\* earlier run of the same schedule id.  When the directory cannot be made
\* Runner::new returns the error (`?`, runner.rs:55): there is no Runner and
\* nothing runs.
RunnerInit ==
    /\ steps \in SeqsUpTo(StepSet, MaxSteps)
    /\ now = 0
    /\ idx = 0
    /\ \/ /\ pc = "no_runner"
          /\ deadline = 0
          /\ rx_alive = FALSE
          /\ artifacts_dir = FALSE
          /\ saved = NoneOpt
       \/ /\ artifacts_dir = TRUE
          /\ saved \in {NoneOpt} \cup {Some(o) : o \in OldLogs}
          /\ IF resolve_panics(0)
             THEN pc = "panicked" /\ deadline = 0 /\ rx_alive = FALSE
             ELSE /\ rx_alive = TRUE
                  /\ IF 0 < Len(steps)
                     THEN pc = "wait" /\ deadline = time_until_next_step(steps[1], 0)
                     ELSE pc = "drain" /\ deadline = DrainTicks
    /\ abort_rx = <<>>
    /\ processes = <<>>
    /\ child = [k \in StepIndex |-> NoChild]
    /\ mon = [k \in StepIndex |-> NoMonitor]
    /\ log = NewLog
    /\ cmd_result = NoneOpt
    /\ run_result = NoneOpt
    /\ \/ TrackerNew /\ worker = FALSE
       \/ TrackerRunning /\ worker = TRUE
    /\ dispatched = <<>>
    /\ returned = <<>>

\* A plausible slip of stop_all: killing the child through the slot without
\* taking it out.
stop_all_children_KeepSlot(ch, procs) ==
    [k \in StepIndex |->
        IF (\E n \in 1..Len(procs) : procs[n] = k) /\ ch[k].slot = "some"
        THEN [ch[k] EXCEPT !.st = IF ch[k].st = "running" THEN "killed" ELSE ch[k].st]
        ELSE ch[k]]

\* Executor::stop_all: take every registered child out of its slot and kill
\* it, then clear the registry.
stop_all_children(ch, procs) ==
    [k \in StepIndex |->
        IF (\E n \in 1..Len(procs) : procs[n] = k) /\ ch[k].slot = "some"
        THEN [ch[k] EXCEPT !.slot = "none",
                           !.st = IF ch[k].st = "running" THEN "killed" ELSE ch[k].st]
        ELSE ch[k]]

\* run_internal, the head of the loop for step i: the time of the step is
\* resolved, which panics when it is out of range (the unwinding drops the
\* Runner, so the Executor and the receiver); the clock is read and the wait
\* before step i begins, or the final wait after the last step.
EnterWait(i) ==
    IF resolve_panics(i)
    THEN /\ pc' = "panicked"
         /\ child' = stop_all_children(child, processes)
         /\ processes' = <<>>
         /\ rx_alive' = FALSE
         /\ UNCHANGED deadline
    ELSE /\ IF i < Len(steps)
            THEN /\ deadline' = now + time_until_next_step(step_at(i), now)
                 /\ pc' = "wait"
            ELSE /\ deadline' = now + DrainTicks
                 /\ pc' = "drain"
         /\ UNCHANGED <<child, processes, rx_alive>>

\* ArtifactsManager::update_step_result: the reason is recorded as the error
\* of the step's result.
update_step_result(l, step, reason) ==
    [l EXCEPT !.step_results =
        [n \in 1..Len(l.step_results) |->
            IF l.step_results[n].step_index = step
            THEN [l.step_results[n] EXCEPT !.success = FALSE, !.error = Some(reason)]
            ELSE l.step_results[n]]]

\* A plausible slip of finish_with_state: leaving completed_at unset.
finish_with_state_NoTime(l, state, t) == [l EXCEPT !.state = state]

\* ArtifactsManager::finish_with_state, the log in memory.
finish_with_state(l, state, t) == [l EXCEPT !.state = state, !.completed_at = Some(t)]

\* RunnerError::Io, what `?` makes of the io::Error of a save.
IoError == Err([kind |-> "Io"])

\* The outcomes of a write of execution_log.yaml by the run: the write fails
\* when the directory is gone, and it may fail for another reason.
Writes == outcomes_in(artifacts_dir)

\* A plausible slip of run(): finalizing the log while the Executor is kept
\* alive, so that stop_all does not run.
Finish_KeepExecutor(l, res, file) ==
    /\ log' = finish_with_state(l, IF res.ok THEN "Completed" ELSE "Failed", now)
    /\ \E outcome \in Writes :
        /\ saved' = fs_write(file, log', outcome)
        /\ run_result' = IF outcome = "written" THEN Some(res) ELSE Some(IoError)
    /\ UNCHANGED <<child, processes>>
    /\ rx_alive' = FALSE
    /\ pc' = "done"

\* Runner::run after run_internal returned res, the log in memory being l and
\* the file holding `file`: the log is finalized and saved, and run returns
\* res, or the error of the save (runner.rs:75, 79); the Runner is dropped,
\* which drops the Executor (stop_all) and the receiver.
Finish(l, res, file) ==
    /\ log' = finish_with_state(l, IF res.ok THEN "Completed" ELSE "Failed", now)
    /\ \E outcome \in Writes :
        /\ saved' = fs_write(file, log', outcome)
        /\ run_result' = IF outcome = "written" THEN Some(res) ELSE Some(IoError)
    /\ child' = stop_all_children(child, processes)
    /\ processes' = <<>>
    /\ rx_alive' = FALSE
    /\ pc' = "done"

\* wait_and_check_abort, Ok(signal): recv_timeout returns a signal that is in
\* the channel or arrives before the deadline; the reason is recorded and
\* saved and run_internal returns Aborted, or the error of the save, which
\* may have left a fragment of the file.
WaitAbort ==
    /\ pc \in {"wait", "drain"}
    /\ abort_rx # <<>>
    /\ LET signal == Head(abort_rx)
           l == update_step_result(log, signal.step, signal.reason)
       IN  \E outcome \in Writes :
            IF outcome = "written"
            THEN Finish(l, Err([kind |-> "Aborted", step |-> signal.step,
                                reason |-> signal.reason]), save(l))
            ELSE Finish(l, IoError, fs_write(saved, l, outcome))
    /\ abort_rx' = Tail(abort_rx)
    /\ UNCHANGED <<steps, now, idx, deadline, mon, artifacts_dir, cmd_result, worker,
                   dispatched, returned, storageVars, trackerVars, parserVars>>

\* A plausible slip of the wait: sleeping to the deadline without looking at
\* the channel.
WaitTimeout_Sleep ==
    /\ pc \in {"wait", "drain"}
    /\ now >= deadline
    /\ IF pc = "wait"
       THEN /\ pc' = "execute"
            /\ UNCHANGED <<run_result, log, saved, child, processes, rx_alive>>
       ELSE Finish(log, Ok, saved)
    /\ UNCHANGED <<steps, now, idx, deadline, abort_rx, mon, artifacts_dir, cmd_result,
                   worker, dispatched, returned, storageVars, trackerVars, parserVars>>

\* wait_and_check_abort, Err(Timeout): the channel is empty at the deadline.
\* Before a step the step is executed next; after the last step run_internal
\* returns Ok.
WaitTimeout ==
    /\ pc \in {"wait", "drain"}
    /\ abort_rx = <<>>
    /\ now >= deadline
    /\ IF pc = "wait"
       THEN /\ pc' = "execute"
            /\ UNCHANGED <<run_result, log, saved, child, processes, rx_alive>>
       ELSE Finish(log, Ok, saved)
    /\ UNCHANGED <<steps, now, idx, deadline, abort_rx, mon, artifacts_dir, cmd_result,
                   worker, dispatched, returned, storageVars, trackerVars, parserVars>>

\* execute_step with an executor command: run_shell opens the log files of
\* the step in the artifacts directory, spawns the child and its monitor and
\* registers the child, or fails with an I/O error, as it does when the
\* directory is gone; stop kills the registered children.
ExecuteExecutor ==
    /\ pc = "execute"
    /\ step_at(idx).cmd.module = "executor"
    /\ IF step_at(idx).cmd.action = "run_shell"
       THEN \/ /\ artifacts_dir
               /\ child' = [child EXCEPT ![idx] =
                                [slot |-> "some", st |-> "running", code |-> 0]]
               /\ mon' = [mon EXCEPT ![idx] =
                                [pc |-> "poll", wake |-> 0,
                                 on_fail |-> step_at(idx).cmd.on_fail]]
               /\ processes' = Append(processes, idx)
               /\ cmd_result' = Some(Ok)
            \/ /\ cmd_result' = Some(Err([kind |-> "Executor", error |-> "Io"]))
               /\ UNCHANGED <<child, mon, processes>>
       ELSE /\ child' = stop_all_children(child, processes)
            /\ processes' = <<>>
            /\ cmd_result' = Some(Ok)
            /\ UNCHANGED mon
    /\ dispatched' = Append(dispatched, idx)
    /\ pc' = "record"
    /\ UNCHANGED <<steps, now, idx, deadline, abort_rx, rx_alive, log, saved, artifacts_dir,
                   run_result, worker, returned, storageVars, trackerVars, parserVars>>

\* execute_step with a tracker command, up to the first wait inside
\* Tracker::execute_command.  run fails with AlreadyRunning when a worker
\* handle is held, and else spawns the worker and stores its handle; stop
\* takes the handle and sends the stop signal (to no effect when the worker
\* has ended), or without a handle sets the mode to Idle at once;
\* rotator_park is todo!(), a panic that unwinds the Runner and so drops the
\* Executor.
ExecuteTracker ==
    /\ pc = "execute"
    /\ step_at(idx).cmd.module = "tracker"
    /\ dispatched' = Append(dispatched, idx)
    /\ IF step_at(idx).cmd.action = "rotator_park"
       THEN /\ pc' = "panicked"
            /\ child' = stop_all_children(child, processes)
            /\ processes' = <<>>
            /\ rx_alive' = FALSE
            /\ UNCHANGED <<cmd_result, worker, wk, stop_tx, status>>
       ELSE /\ IF step_at(idx).cmd.action = "run"
               THEN IF worker
                    THEN /\ cmd_result' = Some(Err([kind |-> "Tracker",
                                                    error |-> "AlreadyRunning"]))
                         /\ pc' = "record"
                         /\ UNCHANGED <<worker, wk, stop_tx, status>>
                    ELSE /\ wk' = [NoWorker EXCEPT !.pc = "start",
                                                   !.end = step_at(idx).cmd.end]
                         /\ stop_tx' = FALSE
                         /\ worker' = TRUE
                         /\ pc' = "tracker_run"
                         /\ UNCHANGED <<cmd_result, status>>
               ELSE IF worker
                    THEN /\ worker' = FALSE
                         /\ stop_tx' = (wk.pc # "ended")
                         /\ pc' = "tracker_join"
                         /\ UNCHANGED <<cmd_result, wk, status>>
                    ELSE /\ status' = [status EXCEPT !.mode = Idle]
                         /\ cmd_result' = Some(Ok)
                         /\ pc' = "record"
                         /\ UNCHANGED <<worker, wk, stop_tx>>
            /\ UNCHANGED <<child, processes, rx_alive>>
    /\ UNCHANGED <<steps, now, idx, deadline, abort_rx, mon, log, saved, artifacts_dir,
                   run_result, returned, storageVars, tpc, tret, parserVars>>

\* Tracker::run, tracker.rs:128-137: the handle stored, the mode is written
\* and Ok returned.  The worker may have taken steps since it was spawned.
ExecuteTrackerRun ==
    /\ pc = "tracker_run"
    /\ status' = [status EXCEPT !.mode = Running(wk.end, NoneOpt)]
    /\ cmd_result' = Some(Ok)
    /\ pc' = "record"
    /\ UNCHANGED <<steps, now, idx, deadline, abort_rx, rx_alive, processes, child, mon,
                   log, saved, artifacts_dir, run_result, worker, dispatched, returned,
                   storageVars, wk, stop_tx, tpc, tret, parserVars>>

\* Tracker::stop, tracker.rs:87-92: join returns once the worker has
\* returned; the mode is set to Idle and stop returns.
ExecuteTrackerJoin ==
    /\ pc = "tracker_join"
    /\ wk.pc = "ended"
    /\ status' = [status EXCEPT !.mode = Idle]
    /\ stop_tx' = FALSE
    /\ cmd_result' = Some(Ok)
    /\ pc' = "record"
    /\ UNCHANGED <<steps, now, idx, deadline, abort_rx, rx_alive, processes, child, mon,
                   log, saved, artifacts_dir, run_result, worker, dispatched, returned,
                   storageVars, wk, tpc, tret, parserVars>>

\* execute_step with a radio command, run or stop: the radio subsystem
\* returns success or an error message.
ExecuteRadio ==
    /\ pc = "execute"
    /\ step_at(idx).cmd.module = "radio"
    /\ dispatched' = Append(dispatched, idx)
    /\ cmd_result' \in {Some(Ok), Some(Err([kind |-> "Radio", error |-> "radio"]))}
    /\ pc' = "record"
    /\ UNCHANGED <<steps, now, idx, deadline, abort_rx, rx_alive, processes, child,
                   mon, log, saved, artifacts_dir, run_result, worker, returned,
                   storageVars, trackerVars, parserVars>>

\* StepResult::new(index, step, started_at, &result)
StepResult_new(index, step, res) ==
    [step_index |-> index,
     command_type |-> step.cmd.module,
     success |-> res.ok,
     error |-> IF res.ok THEN NoneOpt ELSE Some(res.err)]

\* A plausible slip of add_step_result: keeping the latest result only.
add_step_result_Replace(l, step_result) ==
    [l EXCEPT !.step_results = <<step_result>>]

\* ArtifactsManager::add_step_result, the log in memory: push (the save
\* follows).
add_step_result(l, step_result) ==
    [l EXCEPT !.step_results = Append(l.step_results, step_result)]

\* A plausible slip of the loop: dropping the result of execute_step, so
\* that the loop moves on after an error.
RecordStep_NoPropagate ==
    /\ pc = "record"
    /\ returned' = Append(returned, cmd_result.v.ok)
    /\ LET l == add_step_result(log, StepResult_new(idx, step_at(idx), cmd_result.v))
       IN  \E outcome \in Writes :
            IF outcome = "written"
            THEN /\ log' = l
                 /\ saved' = save(l)
                 /\ idx' = next_index(idx)
                 /\ EnterWait(next_index(idx))
                 /\ UNCHANGED run_result
            ELSE /\ Finish(l, IoError, fs_write(saved, l, outcome))
                 /\ UNCHANGED <<idx, deadline>>
    /\ cmd_result' = NoneOpt
    /\ UNCHANGED <<steps, now, abort_rx, mon, artifacts_dir, worker, dispatched,
                   storageVars, trackerVars, parserVars>>

\* execute_step, runner.rs:133-136, and the `?` of run_internal: the result
\* is pushed and the log saved.  When the save fails its error is returned in
\* place of the step's result (`?` at runner.rs:134), the file being as it
\* was or a fragment; otherwise an error of the step ends run_internal and
\* success moves the loop on.
RecordStep ==
    /\ pc = "record"
    /\ returned' = Append(returned, cmd_result.v.ok)
    /\ LET l == add_step_result(log, StepResult_new(idx, step_at(idx), cmd_result.v))
       IN  \E outcome \in Writes :
            IF outcome # "written"
            THEN /\ Finish(l, IoError, fs_write(saved, l, outcome))
                 /\ UNCHANGED <<idx, deadline>>
            ELSE IF cmd_result.v.ok
            THEN /\ log' = l
                 /\ saved' = save(l)
                 /\ idx' = next_index(idx)
                 /\ EnterWait(next_index(idx))
                 /\ UNCHANGED run_result
            ELSE /\ Finish(l, cmd_result.v, save(l))
                 /\ UNCHANGED <<idx, deadline>>
    /\ cmd_result' = NoneOpt
    /\ UNCHANGED <<steps, now, abort_rx, mon, artifacts_dir, worker, dispatched,
                   storageVars, trackerVars, parserVars>>

\* The run has a Runner that has not returned or panicked.
RunLasts == pc \notin {"done", "panicked", "no_runner"}

\* The artifacts directory is removed while the run lasts, by a child of the
\* run or by anyone else: execution_log.yaml is gone with it.
RemoveDir ==
    /\ RunLasts
    /\ artifacts_dir
    /\ artifacts_dir' = FALSE
    /\ saved' = NoneOpt
    /\ UNCHANGED <<steps, now, pc, idx, deadline, abort_rx, rx_alive, processes, child,
                   mon, log, cmd_result, run_result, worker, dispatched, returned,
                   storageVars, trackerVars, parserVars>>

\* The artifacts directory is made again while the run lasts, by a child of
\* the run or by anyone else (the Runner calls create_dir_all in
\* ArtifactsManager::new only): it is empty, and the next save succeeds.
MakeDir ==
    /\ RunLasts
    /\ ~artifacts_dir
    /\ artifacts_dir' = TRUE
    /\ UNCHANGED <<steps, now, pc, idx, deadline, abort_rx, rx_alive, processes, child,
                   mon, log, saved, cmd_result, run_result, worker, dispatched, returned,
                   storageVars, trackerVars, parserVars>>

\* The child process of step k exits by itself.
ChildExit(k) ==
    /\ child[k].st = "running"
    /\ \E c \in ExitCodes : child' = [child EXCEPT ![k].st = "exited", ![k].code = c]
    /\ UNCHANGED <<steps, now, pc, idx, deadline, abort_rx, rx_alive, processes, mon,
                   log, saved, artifacts_dir, cmd_result, run_result, worker, dispatched,
                   returned, storageVars, trackerVars, parserVars>>

\* A plausible slip of monitor: the signal is sent for every failed child,
\* whatever its on_fail.
MonitorPoll_AnyFailure(k) ==
    /\ RunLasts
    /\ \/ mon[k].pc = "poll"
       \/ mon[k].pc = "sleep" /\ now >= mon[k].wake
    /\ IF child[k].slot = "none"
       THEN mon' = [mon EXCEPT ![k].pc = "done"]
       ELSE \/ mon' = [mon EXCEPT ![k].pc = "done"]
            \/ IF child[k].st = "exited"
               THEN IF child[k].code # 0
                    THEN mon' = [mon EXCEPT ![k].pc = "send"]
                    ELSE mon' = [mon EXCEPT ![k].pc = "done"]
               ELSE mon' = [mon EXCEPT ![k].pc = "sleep", ![k].wake = now + PollTicks]
    /\ UNCHANGED <<steps, now, pc, idx, deadline, abort_rx, rx_alive, processes, child,
                   log, saved, artifacts_dir, cmd_result, run_result, worker, dispatched,
                   returned, storageVars, trackerVars, parserVars>>

\* One turn of the loop of monitor, process.rs:66-111: under the lock the
\* slot is found empty and the monitor returns; or try_wait fails and the
\* monitor returns, the child left in its slot (process.rs:107-110); or
\* try_wait finds the child exited; or the child still runs and the monitor
\* sleeps 100 ms.  For a child that exited with a code other than 0 and
\* on_fail = abort the monitor goes on, the lock released, to send the
\* signal.  Polls are followed while the run lasts: once the Runner is
\* dropped every registered slot is empty, so a later poll only ends the
\* monitor.
MonitorPoll(k) ==
    /\ RunLasts
    /\ \/ mon[k].pc = "poll"
       \/ mon[k].pc = "sleep" /\ now >= mon[k].wake
    /\ IF child[k].slot = "none"
       THEN mon' = [mon EXCEPT ![k].pc = "done"]
       ELSE \/ mon' = [mon EXCEPT ![k].pc = "done"]
            \/ IF child[k].st = "exited"
               THEN IF child[k].code # 0 /\ mon[k].on_fail = "abort"
                    THEN mon' = [mon EXCEPT ![k].pc = "send"]
                    ELSE mon' = [mon EXCEPT ![k].pc = "done"]
               ELSE mon' = [mon EXCEPT ![k].pc = "sleep", ![k].wake = now + PollTicks]
    /\ UNCHANGED <<steps, now, pc, idx, deadline, abort_rx, rx_alive, processes, child,
                   log, saved, artifacts_dir, cmd_result, run_result, worker, dispatched,
                   returned, storageVars, trackerVars, parserVars>>

\* monitor, process.rs:93-101: `let _ = abort_tx.send(AbortSignal { .. })`,
\* then the monitor returns.  The send may come after the Runner has
\* returned or stopped: the receiver is gone then, send returns an error and
\* the signal is dropped.
MonitorSend(k) ==
    /\ mon[k].pc = "send"
    /\ mon' = [mon EXCEPT ![k].pc = "done"]
    /\ abort_rx' = IF rx_alive
                   THEN Append(abort_rx, AbortSignal(k, child[k].code))
                   ELSE abort_rx
    /\ UNCHANGED <<steps, now, pc, idx, deadline, rx_alive, processes, child, log, saved,
                   artifacts_dir, cmd_result, run_result, worker, dispatched, returned,
                   storageVars, trackerVars, parserVars>>

\* 100 ms pass.  Time passes while the Runner waits: in recv_timeout, up to
\* the deadline of that wait; for the mutex of the tracker (blocking_lock,
\* runner.rs:125), which another user of the tracker may hold; and in
\* Tracker::stop for the worker to return (join).  The clock ends at
\* MaxClock.  A sleeping monitor wakes at the end of its sleep or later.
Tick ==
    /\ now < MaxClock
    /\ \/ pc \in {"wait", "drain"} /\ now < deadline
       \/ pc = "execute" /\ step_at(idx).cmd.module = "tracker"
       \/ pc = "tracker_join"
    /\ now' = now + 1
    /\ UNCHANGED <<steps, pc, idx, deadline, abort_rx, rx_alive, processes, child,
                   mon, log, saved, artifacts_dir, cmd_result, run_result, worker,
                   dispatched, returned, storageVars, trackerVars, parserVars>>

\* ------------------------------------------- storage, one call at a time
\* Each Storage method is an operator from the disk (the files and the
\* folders there are) to what it returns and the disk it leaves.

NoRet == [op |-> "none", result |-> "none"]

\* Storage::submit_schedule
submit_schedule(fs, dirs, uuid, schedule, approval_mode) ==
    IF check_overlap(fs, schedule.start, schedule.end, None)
    THEN [result |-> "Overlap", files |-> fs, dirs |-> dirs]
    ELSE LET approval_result == evaluate_approval(approval_mode)
             target_state == IF is_approved(approval_result)
                             THEN "Active" ELSE "AwaitingApproval"
             id == generate_id(schedule.start, uuid)
         IN  [result |-> "Ok",
              files |-> save_schedule(fs, target_state, id, schedule),
              dirs |-> dirs \cup {folder_name(target_state)},
              entry |-> ScheduleEntry(id, target_state, schedule.start, schedule.end),
              approval |-> approval_result]

\* A plausible slip of delete_schedule: looking the id up in both folders.
delete_schedule_AnyState(fs, dirs, state, id) ==
    IF ~(\E f \in fs : f.id = id)
    THEN [result |-> "NotFound", files |-> fs]
    ELSE [result |-> "Ok", files |-> {f \in fs : f.id # id}]

\* Storage::delete_schedule: remove_file of the file the path names.
delete_schedule(fs, dirs, state, id) ==
    IF ~path_exists(fs, dirs, schedule_path(state, id))
    THEN [result |-> "NotFound", files |-> fs]
    ELSE [result |-> "Ok", files |-> fs \ file_at(fs, dirs, schedule_path(state, id))]

\* reject_schedule (web/api/schedules.rs)
reject_schedule(fs, dirs, id) == delete_schedule(fs, dirs, "AwaitingApproval", id)

\* Storage::approve_schedule
approve_schedule(fs, dirs, id) ==
    LET got == get_schedule(fs, dirs, "AwaitingApproval", id)
    IN  IF ~got.ok THEN [result |-> got.err, files |-> fs, dirs |-> dirs]
        ELSE IF check_overlap(fs, got.entry.start, got.entry.end, None)
        THEN [result |-> "Overlap", files |-> fs, dirs |-> dirs]
        ELSE [result |-> "Ok",
              files |-> move_schedule(fs, dirs \cup {folder_name("Active")},
                                      "AwaitingApproval", "Active", id),
              dirs |-> dirs \cup {folder_name("Active")},
              entry |-> ScheduleEntry(got.entry.id, "Active", got.entry.start, got.entry.end)]

\* A call of submit: a successful one draws a uuid, of which the model has
\* MaxIds.
Submit ==
    \E s \in Schedules, m \in ApprovalMode :
        LET r == submit_schedule(files, folders, nextUuid, s, m)
        IN  /\ r.result = "Ok" => nextUuid <= MaxIds
            /\ files' = r.files
            /\ folders' = r.dirs
            /\ nextUuid' = IF r.result = "Ok" THEN nextUuid + 1 ELSE nextUuid
            /\ ret' = IF r.result = "Ok"
                      THEN [op |-> "submit", result |-> "Ok", schedule |-> s, mode |-> m,
                            entry |-> r.entry, approval |-> r.approval]
                      ELSE [op |-> "submit", result |-> r.result, schedule |-> s, mode |-> m]
            /\ UNCHANGED <<concVars, runnerVars, trackerVars, parserVars>>

Approve ==
    \E id \in Ids(files) :
        LET r == approve_schedule(files, folders, id)
        IN  /\ files' = r.files
            /\ folders' = r.dirs
            /\ ret' = IF r.result = "Ok"
                      THEN [op |-> "approve", result |-> "Ok", id |-> id, entry |-> r.entry]
                      ELSE [op |-> "approve", result |-> r.result, id |-> id]
            /\ UNCHANGED <<nextUuid, concVars, runnerVars, trackerVars, parserVars>>

Delete ==
    \E st \in ScheduleState, id \in Ids(files) :
        LET r == delete_schedule(files, folders, st, id)
        IN  /\ files' = r.files
            /\ ret' = [op |-> "delete", result |-> r.result, state |-> st, id |-> id]
            /\ UNCHANGED <<folders, nextUuid, concVars, runnerVars, trackerVars, parserVars>>

Reject ==
    \E id \in Ids(files) :
        LET r == reject_schedule(files, folders, id)
        IN  /\ files' = r.files
            /\ ret' = [op |-> "reject", result |-> r.result, id |-> id]
            /\ UNCHANGED <<folders, nextUuid, concVars, runnerVars, trackerVars, parserVars>>

\* Two request handlers: the server runs on a multi-threaded runtime and
\* Storage holds no lock (web/server.rs, main.rs).
Procs == {1, 2}

IdleProc == [pc |-> "idle", res |-> "none"]

\* Storage::new creates nothing: no folder, no file.
StorageInit ==
    /\ files = {}
    /\ folders = {}
    /\ nextUuid = 1
    /\ ret = NoRet
    /\ proc = [p \in Procs |-> IdleProc]
    /\ seenAt = <<>>

StorageNext == Submit \/ Approve \/ Delete \/ Reject

vars == <<storageVars, runnerVars, trackerVars, parserVars>>

\* The storage alone: no schedule is run.
InitStorage == StorageInit /\ NoRun /\ TrackerNew /\ NoParse

SpecStorage == InitStorage /\ [][StorageNext]_vars

\* ------------------------------------- storage, two handlers interleaved
\* The same methods, one file-system call at a time: another handler may run
\* between the listing of a folder and the read of each of its files, between
\* an existence test and the read, rename or removal that follows it,
\* between the making of a folder and the write or rename into it, and
\* between the overlap check and the write or rename.

Return(p, result) == [proc EXCEPT ![p] = [pc |-> "idle", res |-> result]]

ActiveIds(fs) == {f.id : f \in {g \in fs : g.state = "Active"}}

\* Uuids the handlers inside submit are about to draw.
InFlight == Cardinality({p \in Procs : proc[p].pc \in {"submit_read", "submit_save"}})

\* get_schedules, storage.rs:88: the read of one listed file.  A file that
\* has gone since the listing is skipped.
read_listed(fs, view, id) == view \cup {f \in fs : f.state = "Active" /\ f.id = id}

\* submit_schedule past the reads of its check (storage.rs:146-155).
SubmitChecked(p, s, m, view) ==
    IF check_overlap(view, s.start, s.end, None)
    THEN Return(p, "Overlap")
    ELSE [proc EXCEPT ![p] =
            [pc |-> "submit_save", res |-> "none", schedule |-> s, mode |-> m,
             seen |-> ActiveIds(view)]]

\* submit_schedule, storage.rs:146: check_overlap lists the Active folder
\* (read_dir, storage.rs:74).
SubmitCheck(p) ==
    /\ proc[p].pc = "idle"
    /\ nextUuid + InFlight <= MaxIds
    /\ \E s \in Schedules, m \in ApprovalMode :
        IF ActiveIds(files) = {}
        THEN proc' = SubmitChecked(p, s, m, {})
        ELSE proc' = [proc EXCEPT ![p] =
                [pc |-> "submit_read", res |-> "none", schedule |-> s, mode |-> m,
                 todo |-> ActiveIds(files), view |-> {}]]
    /\ UNCHANGED <<files, folders, nextUuid, ret, seenAt, runnerVars, trackerVars, parserVars>>

\* check_overlap of submit: the read of one listed file (storage.rs:78-109),
\* and after the last one the comparison.
SubmitRead(p) ==
    /\ proc[p].pc = "submit_read"
    /\ \E id \in proc[p].todo :
        LET view == read_listed(files, proc[p].view, id)
        IN  IF proc[p].todo = {id}
            THEN proc' = SubmitChecked(p, proc[p].schedule, proc[p].mode, view)
            ELSE proc' = [proc EXCEPT ![p].todo = @ \ {id}, ![p].view = view]
    /\ UNCHANGED <<files, folders, nextUuid, ret, seenAt, runnerVars, trackerVars, parserVars>>

\* submit_schedule, storage.rs:150-157, and save_schedule, storage.rs:205:
\* the target state, generate_id, and create_dir_all(folder), which makes
\* the folder of the target state when it is missing.
SubmitMkdir(p) ==
    /\ proc[p].pc = "submit_save"
    /\ LET approval_result == evaluate_approval(proc[p].mode)
           target_state == IF is_approved(approval_result)
                           THEN "Active" ELSE "AwaitingApproval"
           id == generate_id(proc[p].schedule.start, nextUuid)
       IN  /\ folders' = folders \cup {folder_name(target_state)}
           /\ proc' = [proc EXCEPT ![p] =
                   [pc |-> "submit_write", res |-> "none", schedule |-> proc[p].schedule,
                    seen |-> proc[p].seen, state |-> target_state, id |-> id]]
    /\ nextUuid' = nextUuid + 1
    /\ UNCHANGED <<files, ret, seenAt, runnerVars, trackerVars, parserVars>>

\* save_schedule, storage.rs:207-208: fs::write of the file, in the folder
\* made before.
SubmitWrite(p) ==
    /\ proc[p].pc = "submit_write"
    /\ files' = save_schedule(files, proc[p].state, proc[p].id, proc[p].schedule)
    /\ seenAt' = IF proc[p].state = "Active"
                 THEN (proc[p].id :> proc[p].seen) @@ seenAt ELSE seenAt
    /\ proc' = Return(p, "Ok")
    /\ UNCHANGED <<folders, nextUuid, ret, runnerVars, trackerVars, parserVars>>

\* get_schedule, storage.rs:123: path.exists().
ApproveGet(p) ==
    /\ proc[p].pc = "idle"
    /\ \E id \in Ids(files) :
        IF ~path_exists(files, folders, schedule_path("AwaitingApproval", id))
        THEN proc' = Return(p, "NotFound")
        ELSE proc' = [proc EXCEPT ![p] = [pc |-> "approve_read", res |-> "none", id |-> id]]
    /\ UNCHANGED <<files, folders, nextUuid, ret, seenAt, runnerVars, trackerVars, parserVars>>

\* get_schedule, storage.rs:127-137: read_to_string, an I/O error when the
\* file has gone since the test.
ApproveRead(p) ==
    /\ proc[p].pc = "approve_read"
    /\ LET got == get_schedule(files, folders, "AwaitingApproval", proc[p].id)
       IN  IF ~got.ok THEN proc' = Return(p, "Io")
           ELSE proc' = [proc EXCEPT ![p] =
                   [pc |-> "approve_check", res |-> "none", entry |-> got.entry]]
    /\ UNCHANGED <<files, folders, nextUuid, ret, seenAt, runnerVars, trackerVars, parserVars>>

\* approve_schedule past the reads of its check (storage.rs:184-186).
ApproveChecked(p, entry, view) ==
    IF check_overlap(view, entry.start, entry.end, None)
    THEN Return(p, "Overlap")
    ELSE [proc EXCEPT ![p] =
            [pc |-> "approve_move", res |-> "none", entry |-> entry,
             seen |-> ActiveIds(view)]]

\* approve_schedule, storage.rs:184: check_overlap lists the Active folder.
ApproveCheck(p) ==
    /\ proc[p].pc = "approve_check"
    /\ IF ActiveIds(files) = {}
       THEN proc' = ApproveChecked(p, proc[p].entry, {})
       ELSE proc' = [proc EXCEPT ![p] =
                [pc |-> "approve_check_read", res |-> "none", entry |-> proc[p].entry,
                 todo |-> ActiveIds(files), view |-> {}]]
    /\ UNCHANGED <<files, folders, nextUuid, ret, seenAt, runnerVars, trackerVars, parserVars>>

\* check_overlap of approve: the read of one listed file, and after the last
\* one the comparison.
ApproveCheckRead(p) ==
    /\ proc[p].pc = "approve_check_read"
    /\ \E id \in proc[p].todo :
        LET view == read_listed(files, proc[p].view, id)
        IN  IF proc[p].todo = {id}
            THEN proc' = ApproveChecked(p, proc[p].entry, view)
            ELSE proc' = [proc EXCEPT ![p].todo = @ \ {id}, ![p].view = view]
    /\ UNCHANGED <<files, folders, nextUuid, ret, seenAt, runnerVars, trackerVars, parserVars>>

\* move_schedule, storage.rs:247: from_path.exists().
ApproveMove(p) ==
    /\ proc[p].pc = "approve_move"
    /\ IF ~path_exists(files, folders, schedule_path("AwaitingApproval", proc[p].entry.id))
       THEN proc' = Return(p, "NotFound")
       ELSE proc' = [proc EXCEPT ![p].pc = "approve_mkdir"]
    /\ UNCHANGED <<files, folders, nextUuid, ret, seenAt, runnerVars, trackerVars, parserVars>>

\* move_schedule, storage.rs:251: create_dir_all(to_folder) makes the Active
\* folder when it is missing.
ApproveMkdir(p) ==
    /\ proc[p].pc = "approve_mkdir"
    /\ folders' = folders \cup {folder_name("Active")}
    /\ proc' = [proc EXCEPT ![p].pc = "approve_rename"]
    /\ UNCHANGED <<files, nextUuid, ret, seenAt, runnerVars, trackerVars, parserVars>>

\* move_schedule, storage.rs:252: rename, an I/O error when the file has gone
\* since the test.
ApproveRename(p) ==
    /\ proc[p].pc = "approve_rename"
    /\ LET id == proc[p].entry.id
       IN  IF ~path_exists(files, folders, schedule_path("AwaitingApproval", id))
           THEN /\ proc' = Return(p, "Io")
                /\ UNCHANGED <<files, seenAt>>
           ELSE /\ files' = move_schedule(files, folders, "AwaitingApproval", "Active", id)
                /\ seenAt' = IF id.up = ""
                             THEN (id :> proc[p].seen) @@ seenAt ELSE seenAt
                /\ proc' = Return(p, "Ok")
    /\ UNCHANGED <<folders, nextUuid, ret, runnerVars, trackerVars, parserVars>>

\* delete_schedule, storage.rs:173: path.exists().
DeleteExists(p) ==
    /\ proc[p].pc = "idle"
    /\ \E st \in ScheduleState, id \in Ids(files) :
        IF ~path_exists(files, folders, schedule_path(st, id))
        THEN proc' = Return(p, "NotFound")
        ELSE proc' = [proc EXCEPT ![p] =
                [pc |-> "delete_remove", res |-> "none", state |-> st, id |-> id]]
    /\ UNCHANGED <<files, folders, nextUuid, ret, seenAt, runnerVars, trackerVars, parserVars>>

\* delete_schedule, storage.rs:177: remove_file, an I/O error when the file
\* has gone meanwhile.
DeleteRemove(p) ==
    /\ proc[p].pc = "delete_remove"
    /\ LET path == schedule_path(proc[p].state, proc[p].id)
       IN  IF ~path_exists(files, folders, path)
           THEN /\ proc' = Return(p, "Io")
                /\ UNCHANGED files
           ELSE /\ files' = files \ file_at(files, folders, path)
                /\ proc' = Return(p, "Ok")
    /\ UNCHANGED <<folders, nextUuid, ret, seenAt, runnerVars, trackerVars, parserVars>>

StorageConcNext ==
    \E p \in Procs :
        \/ SubmitCheck(p)
        \/ SubmitRead(p)
        \/ SubmitMkdir(p)
        \/ SubmitWrite(p)
        \/ ApproveGet(p)
        \/ ApproveRead(p)
        \/ ApproveCheck(p)
        \/ ApproveCheckRead(p)
        \/ ApproveMove(p)
        \/ ApproveMkdir(p)
        \/ ApproveRename(p)
        \/ DeleteExists(p)
        \/ DeleteRemove(p)

SpecStorageConc == InitStorage /\ [][StorageConcNext]_vars

\* ------------------------------------------------------------ the tracker
\* One Tracker with its worker thread.  Tracker operations are called with
\* the tracker's outer mutex held, so one at a time; the worker runs beside
\* them.  One unit of the clock is STEP, the spacing of the samples (1 s); a
\* Sample is named by its timestamp.

\* An open-ended window, DEFAULT_OPEN_ENDED in the code, is cut to this many
\* steps.
MaxWindow == 1

\* The variables of a run that no tracker operation touches.
runOnlyVars == <<steps, pc, idx, deadline, abort_rx, rx_alive, processes, child, mon,
                 log, saved, artifacts_dir, cmd_result, run_result, dispatched, returned>>

\* The end times a caller passes to Run: none, or an instant.
EndTimes == {NoneOpt} \cup {Some(t) : t \in 0..MaxClock}

\* build_trajectory(start, end, step): the samples at start, start + step, ..
\* while the cursor is at most end.
build_trajectory(start, end) ==
    IF end < start THEN <<>> ELSE [k \in 1..(end - start + 1) |-> start + (k - 1)]

\* The longest step between two samples.
MaxStride == 2

\* The instants of a trajectory's window.
Instants == 0..MaxTime

\* A plausible slip of the loop of build_trajectory: `cursor < end`, an
\* exclusive end.
RECURSIVE trajectory_loop_Exclusive(_, _, _, _, _)
trajectory_loop_Exclusive(cursor, end, step, failing, points) ==
    IF cursor < end
    THEN IF cursor \in failing
         THEN Err("Propagation")
         ELSE trajectory_loop_Exclusive(cursor + step, end, step, failing,
                                        Append(points, cursor))
    ELSE OkOf(points)

\* The loop of build_trajectory: while cursor <= end, the sample of the
\* cursor is computed, which returns the error when propagate_sample fails
\* (at the instants of failing), and pushed, and the cursor moves by step.
\* A sample is known by its timestamp.
RECURSIVE trajectory_loop(_, _, _, _, _)
trajectory_loop(cursor, end, step, failing, points) ==
    IF cursor <= end
    THEN IF cursor \in failing
         THEN Err("Propagation")
         ELSE trajectory_loop(cursor + step, end, step, failing, Append(points, cursor))
    ELSE OkOf(points)

\* build_trajectory(.., start, end, .., step), the propagation failing at
\* the instants of failing.
try_build_trajectory(start, end, step, failing) ==
    trajectory_loop(start, end, step, failing, <<>>)

\* build_trajectory is called for a window, a positive step and a satellite
\* whose propagation fails at some instants.
TrajectoryInit ==
    /\ input \in {[start |-> s, end |-> e, step |-> d, failing |-> f] :
                     s \in Instants, e \in Instants, d \in 1..MaxStride,
                     f \in SUBSET Instants}
    /\ output = NoneOpt
    /\ NoDocument

\* build_trajectory returns.
Trajectory ==
    /\ output = NoneOpt
    /\ output' = Some(try_build_trajectory(input.start, input.end, input.step,
                                           input.failing))
    /\ UNCHANGED <<input, doc, parsed, storageVars, runnerVars, trackerVars>>

\* The status after the worker failed or finished: Idle, no sample, no
\* trajectory.
ClearedStatus == [mode |-> Idle, last_sample |-> NoneOpt, trajectory |-> <<>>]

\* Tracker::run, up to the handle being stored: AlreadyRunning when a handle
\* is held, else a new stop channel and a spawned worker.
RunCall ==
    /\ tpc = "idle"
    /\ \E end \in EndTimes :
          IF worker
          THEN /\ tret' = Some(Err("AlreadyRunning"))
               /\ UNCHANGED <<worker, wk, stop_tx, tpc>>
          ELSE /\ wk' = [pc |-> "start", end |-> end, traj |-> <<>>, k |-> 0, err |-> FALSE]
               /\ stop_tx' = FALSE
               /\ worker' = TRUE
               /\ tpc' = "run_set_mode"
               /\ tret' = NoneOpt
    /\ UNCHANGED <<status, now, runOnlyVars, storageVars, parserVars>>

\* Tracker::run, tracker.rs:128-137: the mode is written, and Ok returned.
RunSetMode ==
    /\ tpc = "run_set_mode"
    /\ status' = [status EXCEPT !.mode = Running(wk.end, NoneOpt)]
    /\ tret' = Some(Ok)
    /\ tpc' = "idle"
    /\ UNCHANGED <<worker, wk, stop_tx, now, runOnlyVars, storageVars, parserVars>>

\* Tracker::stop that, without a handle, resets the whole status.
StopCall_ClearNoHandle ==
    /\ tpc = "idle"
    /\ IF worker
       THEN /\ worker' = FALSE
            /\ stop_tx' = (wk.pc # "ended")
            /\ tpc' = "stop_join"
            /\ tret' = NoneOpt
            /\ UNCHANGED status
       ELSE /\ status' = ClearedStatus
            /\ tret' = Some(Ok)
            /\ UNCHANGED <<worker, stop_tx, tpc>>
    /\ UNCHANGED <<wk, now, runOnlyVars, storageVars, parserVars>>

\* Tracker::stop that takes the handle and joins without sending the stop
\* signal.
StopCall_NoSignal ==
    /\ tpc = "idle"
    /\ IF worker
       THEN /\ worker' = FALSE
            /\ stop_tx' = FALSE
            /\ tpc' = "stop_join"
            /\ tret' = NoneOpt
            /\ UNCHANGED status
       ELSE /\ status' = [status EXCEPT !.mode = Idle]
            /\ tret' = Some(Ok)
            /\ UNCHANGED <<worker, stop_tx, tpc>>
    /\ UNCHANGED <<wk, now, runOnlyVars, storageVars, parserVars>>

\* Tracker::stop, up to the join: with a handle, the handle is taken and the
\* stop signal sent (to no effect when the worker has ended); without one
\* the mode is set to Idle at once.
StopCall ==
    /\ tpc = "idle"
    /\ IF worker
       THEN /\ worker' = FALSE
            /\ stop_tx' = (wk.pc # "ended")
            /\ tpc' = "stop_join"
            /\ tret' = NoneOpt
            /\ UNCHANGED status
       ELSE /\ status' = [status EXCEPT !.mode = Idle]
            /\ tret' = Some(Ok)
            /\ UNCHANGED <<worker, stop_tx, tpc>>
    /\ UNCHANGED <<wk, now, runOnlyVars, storageVars, parserVars>>

\* Tracker::stop that does not join the worker.
StopJoin_NoJoin ==
    /\ tpc = "stop_join"
    /\ status' = [status EXCEPT !.mode = Idle]
    /\ stop_tx' = FALSE
    /\ tret' = Some(Ok)
    /\ tpc' = "idle"
    /\ UNCHANGED <<worker, wk, now, runOnlyVars, storageVars, parserVars>>

\* Tracker::stop after the worker was joined: the mode is set to Idle.
StopJoin ==
    /\ tpc = "stop_join"
    /\ wk.pc = "ended"
    /\ status' = [status EXCEPT !.mode = Idle]
    /\ stop_tx' = FALSE
    /\ tret' = Some(Ok)
    /\ tpc' = "idle"
    /\ UNCHANGED <<worker, wk, now, runOnlyVars, storageVars, parserVars>>

\* The worker returns an error: the closure of Tracker::run resets the
\* status.
WorkerError ==
    /\ status' = ClearedStatus
    /\ wk' = [wk EXCEPT !.pc = "ended", !.err = TRUE]

\* The TLE texts given to Run, each by its lines that are not blank: the two
\* element lines alone, a name line before them, and a text of one line.
Tles == {<<"1 x", "2 x">>, <<"name", "1 x", "2 x">>, <<"not a tle">>}

\* parse_tle_lines, parsing.rs:3-16: two lines have no name, three lines
\* have the first as the name, any other number is InvalidTleFormat.
parse_tle_lines(lines) ==
    IF Len(lines) = 2 THEN OkOf([name |-> NoneOpt])
    ELSE IF Len(lines) = 3 THEN OkOf([name |-> Some(lines[1])])
    ELSE Err("InvalidTleFormat")

\* run_tracker_loop, tracker.rs:152-174: the TLE of the command is split
\* into its lines; when that fails the worker returns the error; else the
\* elements and the constants are made of them, which may fail too, and the
\* mode is written with the object's name, none for a TLE of two lines.
WorkerStart ==
    /\ wk.pc = "start"
    /\ \E tle \in Tles :
        LET lines == parse_tle_lines(tle)
        IN  IF ~lines.ok
            THEN WorkerError
            ELSE \/ /\ status' = [status EXCEPT !.mode = Running(wk.end, lines.v.name)]
                    /\ wk' = [wk EXCEPT !.pc = "window"]
                 \/ WorkerError
    /\ UNCHANGED <<worker, stop_tx, tpc, tret, now, runOnlyVars, storageVars, parserVars>>

\* A plausible slip of the worker: the trajectory of the window is published
\* and last_sample left as it was.
WorkerWindow_KeepSample ==
    /\ wk.pc = "window"
    /\ \/ LET window_end == IF wk.end.some THEN wk.end.v ELSE now + MaxWindow
              trajectory == build_trajectory(now, window_end)
          IN  /\ status' = [status EXCEPT !.trajectory = trajectory]
              /\ wk' = [wk EXCEPT !.pc = "point", !.traj = trajectory, !.k = 1]
       \/ WorkerError
    /\ UNCHANGED <<worker, stop_tx, tpc, tret, now, runOnlyVars, storageVars, parserVars>>

\* run_tracker_loop, tracker.rs:178-198: the trajectory of the window from
\* now to the end (or to now + the open-ended length) is computed and
\* published with last_sample cleared, or the propagation fails.
WorkerWindow ==
    /\ wk.pc = "window"
    /\ \/ LET window_end == IF wk.end.some THEN wk.end.v ELSE now + MaxWindow
              trajectory == build_trajectory(now, window_end)
          IN  /\ status' = [status EXCEPT !.trajectory = trajectory,
                                          !.last_sample = NoneOpt]
              /\ wk' = [wk EXCEPT !.pc = "point", !.traj = trajectory, !.k = 1]
       \/ WorkerError
    /\ UNCHANGED <<worker, stop_tx, tpc, tret, now, runOnlyVars, storageVars, parserVars>>

\* run_tracker_loop, tracker.rs:212-225: the wait before a point receives the
\* stop signal: the mode is set to Idle and the worker returns Ok.
WorkerStopped ==
    /\ wk.pc = "point"
    /\ wk.k <= Len(wk.traj)
    /\ stop_tx
    /\ status' = [status EXCEPT !.mode = Idle]
    /\ wk' = [wk EXCEPT !.pc = "ended"]
    /\ stop_tx' = FALSE
    /\ UNCHANGED <<worker, tpc, tret, now, runOnlyVars, storageVars, parserVars>>

\* A worker that leaves the wait before a point without waiting for its
\* timestamp.
WorkerWake_NoWait ==
    /\ wk.pc = "point"
    /\ wk.k <= Len(wk.traj)
    /\ ~stop_tx
    /\ wk' = [wk EXCEPT !.pc = "publish"]
    /\ UNCHANGED <<worker, status, stop_tx, tpc, tret, now, runOnlyVars, storageVars,
                   parserVars>>

\* run_tracker_loop, tracker.rs:212-218: the wait before a point times out
\* at the point's timestamp, no stop signal being in the channel:
\* should_stop is false.
WorkerWake ==
    /\ wk.pc = "point"
    /\ wk.k <= Len(wk.traj)
    /\ ~stop_tx
    /\ now >= wk.traj[wk.k]
    /\ wk' = [wk EXCEPT !.pc = "publish"]
    /\ UNCHANGED <<worker, status, stop_tx, tpc, tret, now, runOnlyVars, storageVars,
                   parserVars>>

\* run_tracker_loop, tracker.rs:228-229: the worker takes the mutex and
\* publishes the point, whether or not a stop signal was sent since the wait
\* ended; the signal is received in the wait before the next point.
WorkerPublish ==
    /\ wk.pc = "publish"
    /\ status' = [status EXCEPT !.last_sample = Some(wk.traj[wk.k])]
    /\ wk' = [wk EXCEPT !.pc = "point", !.k = wk.k + 1]
    /\ UNCHANGED <<worker, stop_tx, tpc, tret, now, runOnlyVars, storageVars, parserVars>>

\* run_tracker_loop, tracker.rs:232-244: after the last point, with an end
\* time the status is reset and the worker returns Ok; without one the next
\* window is computed.
WorkerWindowEnd ==
    /\ wk.pc = "point"
    /\ wk.k > Len(wk.traj)
    /\ IF wk.end.some
       THEN /\ status' = ClearedStatus
            /\ wk' = [wk EXCEPT !.pc = "ended"]
       ELSE /\ wk' = [wk EXCEPT !.pc = "window"]
            /\ UNCHANGED status
    /\ UNCHANGED <<worker, stop_tx, tpc, tret, now, runOnlyVars, storageVars, parserVars>>

\* One unit of time passes.
TrackerTick ==
    /\ now < MaxClock
    /\ now' = now + 1
    /\ UNCHANGED <<worker, trackerVars, runOnlyVars, storageVars, parserVars>>

TrackerNext ==
    \/ RunCall
    \/ RunSetMode
    \/ StopCall
    \/ StopJoin
    \/ WorkerStart
    \/ WorkerWindow
    \/ WorkerStopped
    \/ WorkerWake
    \/ WorkerPublish
    \/ WorkerWindowEnd
    \/ TrackerTick

InitTracker == StorageInit /\ NoRun /\ TrackerNew /\ NoParse

SpecTracker == InitTracker /\ [][TrackerNext]_vars

\* One step of the worker thread.
WorkerStep ==
    \/ WorkerStart
    \/ WorkerWindow
    \/ WorkerStopped
    \/ WorkerWake
    \/ WorkerPublish
    \/ WorkerWindowEnd

\* The tracker with threads that are scheduled: a worker that can take a
\* step takes it in the end, and so does a Stop whose worker has returned.
SpecTrackerFair == SpecTracker /\ WF_vars(WorkerStep) /\ WF_vars(StopJoin)

\* ------------------------------------- the run beside the tracker's worker

\* run_tracker_loop, tracker.rs:178-198, on the clock of the run: the
\* trajectory of the window from now to the end (or to now + the open-ended
\* length) is computed and published with last_sample cleared, or the
\* propagation fails.
RunWorkerWindow ==
    /\ wk.pc = "window"
    /\ \/ LET window_end == IF wk.end.some THEN wk.end.v
                                           ELSE now + MaxWindow * StepTicks
              trajectory == try_build_trajectory(now, window_end, StepTicks, {}).v
          IN  /\ status' = [status EXCEPT !.trajectory = trajectory,
                                          !.last_sample = NoneOpt]
              /\ wk' = [wk EXCEPT !.pc = "point", !.traj = trajectory, !.k = 1]
       \/ WorkerError
    /\ UNCHANGED <<worker, stop_tx, tpc, tret, now, runOnlyVars, storageVars, parserVars>>

\* One step of the tracker's worker while the run lasts.  The thread holds
\* no sender of the abort channel, and when it returns by itself the handle
\* stays in Tracker.worker.
RunWorker ==
    /\ RunLasts
    /\ \/ WorkerStart
       \/ RunWorkerWindow
       \/ WorkerStopped
       \/ WorkerWake
       \/ WorkerPublish
       \/ WorkerWindowEnd

RunnerNext ==
    \/ WaitAbort
    \/ WaitTimeout
    \/ ExecuteExecutor
    \/ ExecuteTracker
    \/ ExecuteTrackerRun
    \/ ExecuteTrackerJoin
    \/ ExecuteRadio
    \/ RecordStep
    \/ RemoveDir
    \/ MakeDir
    \/ RunWorker
    \/ \E k \in StepIndex : ChildExit(k)
    \/ \E k \in StepIndex : MonitorPoll(k)
    \/ \E k \in StepIndex : MonitorSend(k)
    \/ Tick

\* A run of one schedule, with the storage left alone.
InitRunner == RunnerInit /\ StorageInit /\ NoParse

SpecRunner == InitRunner /\ [][RunnerNext]_vars

\* A parse of one document, with everything else left alone.
InitParser == ParserInit /\ StorageInit /\ NoRun /\ TrackerNew

SpecParser == InitParser /\ [][ParserNext]_vars

\* A call of TimeExpr::resolve, with everything else left alone.
InitResolve == ResolveInit /\ StorageInit /\ NoRun /\ TrackerNew

SpecResolve == InitResolve /\ [][Resolve]_vars

\* A call of propagate_sample, with everything else left alone.
InitAzimuth == AzimuthInit /\ StorageInit /\ NoRun /\ TrackerNew

SpecAzimuth == InitAzimuth /\ [][Azimuth]_vars

\* ------------------------------------------- the artifacts directory

\* The step log of an earlier run, and the one this run has opened.
OldFile == "old"
NewFile == "new"
AbsentFile == "absent"

\* The directory artifacts/<schedule_id> before ArtifactsManager::new: absent,
\* or present with, each or not, an execution_log.yaml and the log file of
\* a step.
Directories ==
    {NoneOpt} \cup
    {Some([execution_log |-> l, step_logs |-> f]) :
        l \in {NoneOpt} \cup {Some(o) : o \in OldLogs},
        f \in [StepIndex -> {AbsentFile, OldFile}]}

\* The directory has content.
HasContent(dir) ==
    /\ dir.some
    /\ \/ dir.v.execution_log.some
       \/ \E k \in StepIndex : dir.v.step_logs[k] # AbsentFile

\* A directory that was just made.
EmptyDir ==
    Some([execution_log |-> NoneOpt, step_logs |-> [k \in StepIndex |-> AbsentFile]])

\* fs::create_dir_all: Ok also when the directory exists; an error, and
\* nothing made, when something stands in the way (a file where a parent
\* directory should be, a parent that cannot be written).
create_dir_all(dir, blocked) ==
    IF dir.some THEN OkOf(dir)
    ELSE IF blocked THEN Err([kind |-> "Io"])
    ELSE OkOf(EmptyDir)

\* ArtifactsManager::new: the error of create_dir_all is returned (`?`,
\* artifacts.rs:19) and there is no manager; otherwise the manager holds a
\* new log.  `last` is what the latest call on the manager returned.
ArtifactsManager_new(dir, blocked) ==
    LET made == create_dir_all(dir, blocked)
    IN  IF made.ok
        THEN [result |-> Ok, dir |-> made.v, execution_log |-> NewLog, last |-> Ok]
        ELSE [result |-> Err(made.err), dir |-> dir]

\* ExecutionLog::save in the directory: fs::write replaces the file, or
\* fails, leaving a fragment or the directory as it was.
write_log(dir, l, outcome) ==
    IF dir.some
    THEN Some([dir.v EXCEPT !.execution_log = fs_write(@, l, outcome)])
    ELSE dir

\* process::spawn: the log file of the step is opened with create, write and
\* truncate.
open_step_log(dir, k) == Some([dir.v EXCEPT !.step_logs[k] = NewFile])

\* The StepResult of a shell step that was spawned.
SpawnedResult(k) ==
    [step_index |-> k, command_type |-> "executor", success |-> TRUE,
     error |-> NoneOpt]

\* The instants a log is finalized at.
FinishTimes == {1, 2}

ArtifactsInit ==
    /\ input \in {i \in [dir : Directories, blocked : BOOLEAN] :
                    i.blocked => ~i.dir.some}
    /\ output = NoneOpt
    /\ NoDocument

\* Runner::new creates the manager, or fails to.
ArtifactsNew ==
    /\ output = NoneOpt
    /\ output' = Some(ArtifactsManager_new(input.dir, input.blocked))
    /\ UNCHANGED <<input, doc, parsed, storageVars, runnerVars, trackerVars>>

\* A shell step is spawned: its log file is opened.
ArtifactsSpawn ==
    /\ output.some
    /\ output.v.result.ok
    /\ output.v.dir.some
    /\ LET k == Len(output.v.execution_log.step_results)
       IN  /\ k \in StepIndex
           /\ output.v.dir.v.step_logs[k] # NewFile
           /\ output' = Some([output.v EXCEPT !.dir = open_step_log(@, k)])
    /\ UNCHANGED <<input, doc, parsed, storageVars, runnerVars, trackerVars>>

\* ArtifactsManager::add_step_result: the result is pushed to the log in
\* memory, then the log is saved and the result of the save returned.
ArtifactsAddStepResult ==
    /\ output.some
    /\ output.v.result.ok
    /\ LET k == Len(output.v.execution_log.step_results)
           l == add_step_result(output.v.execution_log, SpawnedResult(k))
       IN  /\ k \in StepIndex
           /\ \E outcome \in outcomes_in(output.v.dir.some) :
                output' = Some([output.v EXCEPT !.execution_log = l,
                                                !.dir = write_log(@, l, outcome),
                                                !.last = write_result(outcome)])
    /\ UNCHANGED <<input, doc, parsed, storageVars, runnerVars, trackerVars>>

\* ArtifactsManager::finish_with_state: the log in memory is finalized, then
\* saved and the result of the save returned.  Nothing keeps a caller from
\* finalizing a log again.
ArtifactsFinish ==
    /\ output.some
    /\ output.v.result.ok
    /\ \E state \in {"Completed", "Failed"}, t \in FinishTimes,
          outcome \in outcomes_in(output.v.dir.some) :
         LET l == finish_with_state(output.v.execution_log, state, t)
         IN  /\ output.v.execution_log.completed_at.some =>
                    output.v.execution_log.completed_at.v <= t
             /\ output' = Some([output.v EXCEPT !.execution_log = l,
                                                !.dir = write_log(@, l, outcome),
                                                !.last = write_result(outcome)])
    /\ UNCHANGED <<input, doc, parsed, storageVars, runnerVars, trackerVars>>

\* The directory is removed by a child of the run or by anyone else, with
\* the files in it.
ArtifactsRemoveDir ==
    /\ output.some
    /\ output.v.result.ok
    /\ output.v.dir.some
    /\ output' = Some([output.v EXCEPT !.dir = NoneOpt])
    /\ UNCHANGED <<input, doc, parsed, storageVars, runnerVars, trackerVars>>

\* The directory is made again, empty.
ArtifactsMakeDir ==
    /\ output.some
    /\ output.v.result.ok
    /\ ~output.v.dir.some
    /\ output' = Some([output.v EXCEPT !.dir = EmptyDir])
    /\ UNCHANGED <<input, doc, parsed, storageVars, runnerVars, trackerVars>>

ArtifactsNext ==
    \/ ArtifactsNew
    \/ ArtifactsSpawn
    \/ ArtifactsAddStepResult
    \/ ArtifactsFinish
    \/ ArtifactsRemoveDir
    \/ ArtifactsMakeDir

\* The artifacts of one run, with everything else left alone.
InitArtifacts == ArtifactsInit /\ StorageInit /\ NoRun /\ TrackerNew

SpecArtifacts == InitArtifacts /\ [][ArtifactsNext]_vars

\* A call of build_trajectory, with everything else left alone.
InitTrajectory == TrajectoryInit /\ StorageInit /\ NoRun /\ TrackerNew

SpecTrajectory == InitTrajectory /\ [][Trajectory]_vars

\* A call of resolve_value for a string, with everything else left alone.
InitSubstitute == SubstituteInit /\ StorageInit /\ NoRun /\ TrackerNew

SpecSubstitute == InitSubstitute /\ [][Substitute]_vars

\* A call of predict_passes, with everything else left alone.
InitPasses == PassesInit /\ StorageInit /\ NoRun /\ TrackerNew

SpecPasses == InitPasses /\ [][Passes]_vars

\* ------------------------------------------------- claims on the storage

\* The entries a listing of the folder holds, whatever their order.
listing(fs, state) == UNION {Range(l) : l \in get_schedules(fs, state)}

list(state) == listing(files, state)

Overlaps(a, b) == a.start < b.end /\ b.start < a.end

C4_ApproveMovesExactlyOne ==
    [][ret'.op = "approve" /\ ret'.result = "Ok" =>
        LET before == CHOOSE e \in list("AwaitingApproval") : e.id = ret'.id
            moved == ScheduleEntry(before.id, "Active", before.start, before.end)
        IN  /\ \E e \in list("AwaitingApproval") : e.id = ret'.id
            /\ moved \notin list("Active")
            /\ listing(files', "Active") = list("Active") \cup {moved}
            /\ listing(files', "AwaitingApproval") = list("AwaitingApproval") \ {before}
            /\ ret'.entry = moved]_vars

\* An approve of the id "../AwaitingApproval/<name>" has returned success
\* and the file is still pending.
C4_Witness ==
    /\ ret.op = "approve" /\ ret.result = "Ok"
    /\ ret.id.up = "AwaitingApproval" /\ ~ret.id.abs
    /\ \E f \in files : f.state = "AwaitingApproval" /\ Traversal("AwaitingApproval", f.id) = ret.id

\* C5: approve(id) returns NotFound exactly when id is not in
\* AwaitingApproval (also when it is Active), Overlap exactly when the pending
\* entry overlaps an Active entry at that time, and in both cases leaves both
\* listings unchanged.
C5_ApproveErrors ==
    [][ret'.op = "approve" =>
        LET pending == {e \in list("AwaitingApproval") : e.id = ret'.id}
        IN  /\ (ret'.result = "NotFound") <=> (pending = {})
            /\ (ret'.result = "Overlap") <=>
                   (\E e \in pending, a \in list("Active") : Overlaps(e, a))
            /\ ret'.result \in {"NotFound", "Overlap"} =>
                   /\ listing(files', "Active") = list("Active")
                   /\ listing(files', "AwaitingApproval") = list("AwaitingApproval")]_vars

\* An approve of the id "../Active/<name>" of an Active entry has returned
\* Overlap.
C5_Witness ==
    /\ ret.op = "approve" /\ ret.result = "Overlap"
    /\ \E a \in list("Active") : Traversal("Active", a.id) = ret.id

\* C6: a successful submit stores the schedule in exactly one state, Active
\* under Auto and AwaitingApproval under Manual, and the returned entry and
\* approval result (Approved under Auto, Pending under Manual) agree with it.
C6_SubmitTargetState ==
    [][ret'.op = "submit" /\ ret'.result = "Ok" =>
        LET target == IF ret'.mode = "Auto" THEN "Active" ELSE "AwaitingApproval"
            other == IF ret'.mode = "Auto" THEN "AwaitingApproval" ELSE "Active"
            e == ScheduleEntry(ret'.entry.id, target, ret'.schedule.start, ret'.schedule.end)
        IN  /\ ret'.entry = e
            /\ ret'.approval = (IF ret'.mode = "Auto" THEN "Approved" ELSE "Pending")
            /\ ~(\E f \in files : f.id = e.id)
            /\ listing(files', target) = list(target) \cup {e}
            /\ listing(files', other) = list(other)]_vars

\* A Manual submit has been stored as pending while an Auto one is Active.
C6_Witness ==
    /\ ret.op = "submit" /\ ret.result = "Ok" /\ ret.mode = "Manual"
    /\ \E e \in list("AwaitingApproval") : e.id = ret.entry.id
    /\ list("Active") # {}

\* C7: delete(state, id) removes exactly the file of id in that state and
\* nothing else; when id is not in that state it returns NotFound and leaves
\* the store as it was, so a second delete of the same id returns NotFound;
\* reject(id) deletes from AwaitingApproval only and never changes Active.
C7_DeleteExactlyOne ==
    [][/\ ret'.op = "delete" =>
            LET there == {f \in files : f.state = ret'.state /\ f.id = ret'.id}
            IN  /\ (ret'.result = "NotFound") <=> (there = {})
                /\ ret'.result \in {"NotFound", "Ok"}
                /\ files' = files \ there
                /\ (ret.op = "delete" /\ ret.result = "Ok" /\ ret.state = ret'.state
                        /\ ret.id = ret'.id) => ret'.result = "NotFound"
       /\ ret'.op = "reject" =>
            LET there == {f \in files : f.state = "AwaitingApproval" /\ f.id = ret'.id}
            IN  /\ (ret'.result = "NotFound") <=> (there = {})
                /\ files' = files \ there
                /\ listing(files', "Active") = list("Active")]_vars

\* A reject of the id "../Active/<name>" has returned success and the Active
\* entry of that name is gone.
C7_Witness ==
    /\ ret.op = "reject" /\ ret.result = "Ok"
    /\ ret.id.up = "Active" /\ ~ret.id.abs
    /\ ~(\E a \in list("Active") : Traversal("Active", a.id) = ret.id)

\* C2: submit and approve check for overlap and write (or move) in separate
\* steps under no lock, so that with two handlers interleaved two overlapping
\* Active entries are reachable; and they are reachable in that way only:
\* each of two overlapping Active entries passed its check before the other
\* became Active.
C2_OverlapOnlyByRace ==
    \A a \in files, b \in files :
        (a.state = "Active" /\ b.state = "Active" /\ a.id # b.id /\ Overlaps(a, b)) =>
            /\ a.id \in DOMAIN seenAt /\ b.id \in DOMAIN seenAt
            /\ a.id \notin seenAt[b.id]
            /\ b.id \notin seenAt[a.id]

\* Two overlapping Active entries, the last one written by a submit that
\* passed its check while the other submit had passed its own.
C2_Witness ==
    /\ \E a \in files, b \in files :
          a.state = "Active" /\ b.state = "Active" /\ a.id # b.id /\ Overlaps(a, b)
    /\ \A p \in Procs : proc[p].pc = "idle" /\ proc[p].res = "Ok"

\* ------------------------------------------------------------ the runner's claims

\* The indices of the StepResults of the log, in the order of the log.
result_indices == [n \in 1..Len(log.step_results) |-> log.step_results[n].step_index]

\* run() returned Aborted for step i.
AbortedAt(i) ==
    /\ run_result.some
    /\ ~run_result.v.ok
    /\ run_result.v.err.kind = "Aborted"
    /\ run_result.v.err.step = i

\* The child of step k, started with on_fail = abort, exited by itself with
\* a code other than 0.
FailedAbortChild(k) ==
    /\ child[k].st = "exited"
    /\ child[k].code # 0
    /\ mon[k].on_fail = "abort"

\* C8: steps are dispatched in index order, one at a time: the steps
\* dispatched so far are 0, 1, .. without repetition or gap; when step i is
\* dispatched the commands of all earlier steps have returned and their
\* StepResults are in the log; while the command of a step runs or its result
\* is not yet appended, nothing else is dispatched; and a run that returns Ok
\* has dispatched every step.
C8_SequentialDispatch ==
    /\ dispatched = [n \in 1..Len(dispatched) |-> n - 1]
    /\ Len(dispatched) <= Len(steps)
    /\ pc = "execute" =>
          /\ idx = Len(dispatched)
          /\ Len(returned) = idx
          /\ result_indices = dispatched
    /\ pc \in {"tracker_run", "tracker_join", "record"} =>
          /\ idx = Len(dispatched) - 1
          /\ Len(returned) = idx
          /\ result_indices = SubSeq(dispatched, 1, idx)
    /\ (pc = "done" /\ run_result = Some(Ok)) => Len(dispatched) = Len(steps)

\* Step 1 is about to be dispatched, after step 0 returned and was recorded.
C8_Witness ==
    /\ pc = "execute"
    /\ idx = 1
    /\ dispatched = <<0>>
    /\ result_indices = <<0>>

\* run() returned the I/O error of a write of the log.
IoFailed == run_result = Some(IoError)

\* C9 as stated, the final log being the execution_log.yaml the run has
\* left: every dispatched step has exactly one StepResult with its index,
\* whose success is true iff the step did not fail, that is iff its command
\* returned Ok and the run was not aborted for it; a step never dispatched
\* has no StepResult.
C9_OneResultPerDispatchedStep ==
    pc = "done" =>
        /\ saved.some
        /\ saved.v # Fragment
        /\ LET final == log_from_str(saved.v)
           IN  /\ \A n \in 1..Len(dispatched) :
                     LET i == dispatched[n]
                         rs == {m \in 1..Len(final.step_results) :
                                   final.step_results[m].step_index = i}
                     IN  /\ Cardinality(rs) = 1
                         /\ \A m \in rs :
                               final.step_results[m].success = (returned[n] /\ ~AbortedAt(i))
               /\ \A m \in 1..Len(final.step_results) :
                     \E n \in 1..Len(dispatched) :
                         dispatched[n] = final.step_results[m].step_index

\* C9: when run() has returned, the log in memory holds exactly one
\* StepResult for every dispatched step and none for another step, and no
\* StepResult of a command that returned an error says success; when run()
\* did not return the I/O error of a write of the log, execution_log.yaml
\* holds that log, and the success of a step is true iff its command returned
\* Ok and the run was not aborted for it.
C9_OneResultUnlessIo ==
    pc = "done" =>
        /\ \A n \in 1..Len(dispatched) :
              LET i == dispatched[n]
                  rs == {m \in 1..Len(log.step_results) : log.step_results[m].step_index = i}
              IN  /\ Cardinality(rs) = 1
                  /\ \A m \in rs :
                        /\ log.step_results[m].success => returned[n]
                        /\ ~IoFailed =>
                              log.step_results[m].success = (returned[n] /\ ~AbortedAt(i))
        /\ \A m \in 1..Len(log.step_results) :
              \E n \in 1..Len(dispatched) : dispatched[n] = log.step_results[m].step_index
        /\ ~IoFailed => holds_log(saved, log)

\* A finished run of two dispatched steps, the first recorded as failed by
\* an abort signal, the second as a success.
C9_Witness ==
    /\ pc = "done"
    /\ dispatched = <<0, 1>>
    /\ Len(log.step_results) = 2
    /\ AbortedAt(0)
    /\ ~log.step_results[1].success
    /\ log.step_results[2].success
    /\ saved = save(log)

\* The monitor of step k was never late: it has ended, or its current sleep
\* of 100 ms ends no earlier than now.
MonitorOnTime(k) ==
    \/ mon[k].pc = "done"
    \/ mon[k].pc = "sleep" /\ mon[k].wake >= now

\* C10: when the run has returned and a child started with on_fail = abort
\* has exited by itself with a code other than 0 before that, the run
\* returned an error and the log is Failed, not Completed; stated for the
\* interleavings in which the child's monitor was never late.
C10_AbortOnFailure ==
    (pc = "done" /\ \E k \in StepIndex : FailedAbortChild(k) /\ MonitorOnTime(k)) =>
        /\ log.state = "Failed"
        /\ ~run_result.v.ok

\* The run has returned, and its last step was a run_shell with
\* on_fail = abort whose child exited with a code other than 0.
C10_Witness ==
    /\ pc = "done"
    /\ Len(steps) >= 1
    /\ FailedAbortChild(Len(steps) - 1)
    /\ AbortedAt(Len(steps) - 1)

\* Step 0 is a run_shell with on_fail = abort and step 1 has no time.
FailingThenImmediate ==
    /\ Len(steps) >= 2
    /\ steps[1].cmd = [module |-> "executor", action |-> "run_shell", on_fail |-> "abort"]
    /\ ~steps[2].time.some

\* C11: in a run that has returned, of a schedule whose step 0 is a
\* run_shell with on_fail = abort whose child exited with a code other than
\* 0 and whose step 1 is immediate, the log has no StepResult of index 1;
\* stated for the interleavings in which the child's monitor was never late.
C11_ImmediateStepNotDispatched ==
    (pc = "done" /\ FailingThenImmediate /\ FailedAbortChild(0) /\ MonitorOnTime(0)) =>
        \A m \in 1..Len(log.step_results) : log.step_results[m].step_index # 1

\* Such a run in which the abort signal of step 0 was received before step 1.
C11_Witness ==
    /\ pc = "done"
    /\ FailingThenImmediate
    /\ AbortedAt(0)
    /\ result_indices = <<0>>

\* C12 as stated: when the Runner is in a wait (before a step or the final one) and an
\* AbortSignal (j, reason) is first in the channel, the Runner's next step
\* dispatches nothing and returns Aborted with step j and that reason; j is
\* the step whose child failed, at most the index the Runner waited for, its
\* StepResult exists already,
\* and the finalized log, which never changes afterwards, holds the reason
\* as the error of step j.
C12_AbortAtWait ==
    [][/\ (pc \in {"wait", "drain"} /\ abort_rx # <<>> /\ pc' # pc) =>
            LET signal == Head(abort_rx)
            IN  /\ pc' = "done"
                /\ dispatched' = dispatched
                /\ run_result' = Some(Err([kind |-> "Aborted", step |-> signal.step,
                                           reason |-> signal.reason]))
                /\ signal.step <= idx
                /\ signal.step < Len(dispatched)
                /\ FailedAbortChild(signal.step)
                /\ \E m \in 1..Len(log.step_results) :
                      log.step_results[m].step_index = signal.step
                /\ \A m \in 1..Len(log'.step_results) :
                      log'.step_results[m].step_index = signal.step =>
                          /\ ~log'.step_results[m].success
                          /\ log'.step_results[m].error = Some(signal.reason)
                /\ log'.state = "Failed"
       /\ pc = "done" => (log' = log /\ run_result' = run_result /\ dispatched' = dispatched)
      ]_vars

\* C12: when the Runner is in a wait (before a step or the final one) and an
\* AbortSignal (j, reason) is first in the channel, the Runner's next step
\* dispatches nothing and returns Aborted with step j and that reason, the
\* finalized log being in execution_log.yaml, or, when a write of the log
\* failed, the error of that write; j is
\* the step whose child failed, at most the index the Runner waited for, its
\* StepResult exists already,
\* and the finalized log, which never changes afterwards, holds the reason
\* as the error of step j.
C12_AbortAtWaitOrIo ==
    [][/\ (pc \in {"wait", "drain"} /\ abort_rx # <<>> /\ pc' # pc) =>
            LET signal == Head(abort_rx)
            IN  /\ pc' = "done"
                /\ dispatched' = dispatched
                /\ \/ /\ run_result' = Some(Err([kind |-> "Aborted", step |-> signal.step,
                                                 reason |-> signal.reason]))
                      /\ saved' = save(log')
                   \/ run_result' = Some(IoError)
                /\ signal.step <= idx
                /\ signal.step < Len(dispatched)
                /\ FailedAbortChild(signal.step)
                /\ \E m \in 1..Len(log.step_results) :
                      log.step_results[m].step_index = signal.step
                /\ \A m \in 1..Len(log'.step_results) :
                      log'.step_results[m].step_index = signal.step =>
                          /\ ~log'.step_results[m].success
                          /\ log'.step_results[m].error = Some(signal.reason)
                /\ log'.state = "Failed"
       /\ pc = "done" => (log' = log /\ run_result' = run_result /\ dispatched' = dispatched)
      ]_vars

\* A run aborted while it waited for the timed step 1 by the signal of step 0.
C12_Witness ==
    /\ pc = "done"
    /\ Len(steps) = 2
    /\ steps[2].time.some
    /\ idx = 1
    /\ dispatched = <<0>>
    /\ AbortedAt(0)
    /\ log.step_results[1].error = Some(run_result.v.err.reason)
    /\ saved = save(log)

\* C13 as stated: when the command of step i has returned an error, the Runner's next
\* step appends the StepResult of i with success = false and that error,
\* returns that error with the log finalized as Failed, and dispatches
\* nothing; no step is dispatched after the run has returned.
C13_StepErrorPropagates ==
    [][/\ (pc = "record" /\ ~cmd_result.v.ok /\ pc' # pc) =>
            /\ pc' = "done"
            /\ log'.step_results =
                  Append(log.step_results,
                         [step_index |-> idx, command_type |-> step_at(idx).cmd.module,
                          success |-> FALSE, error |-> Some(cmd_result.v.err)])
            /\ log'.state = "Failed"
            /\ run_result' = cmd_result
            /\ cmd_result.v.err.kind \in {"Executor", "Tracker", "Radio"}
            /\ dispatched' = dispatched
            /\ dispatched[Len(dispatched)] = idx
       /\ pc = "done" => dispatched' = dispatched
      ]_vars

\* C13: when the command of step i has returned an error, the Runner's next
\* step appends the StepResult of i with success = false and that error,
\* finalizes the log as Failed and dispatches nothing; it returns that error
\* with the finalized log in execution_log.yaml, or, when a write of the log
\* failed, the error of that write; no step is dispatched after the run has returned.
C13_StepErrorOrIo ==
    [][/\ (pc = "record" /\ ~cmd_result.v.ok /\ pc' # pc) =>
            /\ pc' = "done"
            /\ log'.step_results =
                  Append(log.step_results,
                         [step_index |-> idx, command_type |-> step_at(idx).cmd.module,
                          success |-> FALSE, error |-> Some(cmd_result.v.err)])
            /\ log'.state = "Failed"
            /\ \/ run_result' = cmd_result /\ saved' = save(log')
               \/ run_result' = Some(IoError)
            /\ cmd_result.v.err.kind \in {"Executor", "Tracker", "Radio"}
            /\ dispatched' = dispatched
            /\ dispatched[Len(dispatched)] = idx
       /\ pc = "done" => dispatched' = dispatched
      ]_vars

\* A run of two steps that returned the spawn error of step 0: step 1 was
\* not dispatched.
C13_Witness ==
    /\ pc = "done"
    /\ Len(steps) = 2
    /\ dispatched = <<0>>
    /\ run_result = Some(Err([kind |-> "Executor", error |-> "Io"]))
    /\ Len(log.step_results) = 1
    /\ ~log.step_results[1].success
    /\ log.step_results[1].error = Some([kind |-> "Executor", error |-> "Io"])
    /\ saved = save(log)

\* Every step of the schedule was dispatched and its command returned Ok.
EveryStepSucceeded ==
    /\ Len(returned) = Len(steps)
    /\ \A n \in 1..Len(returned) : returned[n]

\* run() returned Aborted: an abort signal was received at a wait.
AbortReceived ==
    /\ run_result.some
    /\ ~run_result.v.ok
    /\ run_result.v.err.kind = "Aborted"

\* C14 as stated: the log is finalized exactly once: while run_internal has not
\* returned the state is Running and completed_at is absent; the one change
\* of the state is made when run() returns, to Completed iff every step
\* succeeded and no abort signal was received, to Failed otherwise, with
\* completed_at set to the time of that moment.
C14_FinalizedOnce ==
    /\ [](pc # "done" => (log.state = "Running" /\ ~log.completed_at.some))
    /\ [](pc = "done" =>
            /\ log.state \in {"Completed", "Failed"}
            /\ log.completed_at.some
            /\ log.state = "Completed" <=> (EveryStepSucceeded /\ ~AbortReceived))
    /\ [][(log'.state # log.state \/ log'.completed_at # log.completed_at) =>
            /\ pc # "done"
            /\ pc' = "done"
            /\ log.state = "Running"
            /\ log'.completed_at = Some(now)]_vars

\* C14: the log is finalized exactly once: while run_internal has not
\* returned the state is Running and completed_at is absent; the one change
\* of the state is made when run() returns, with completed_at set to the
\* time of that moment.  When run() did not return the I/O error of a write
\* of the log, the state is Completed iff every step succeeded and no abort
\* signal was received, Failed otherwise, and execution_log.yaml holds the
\* finalized log; a run that returns Ok has a Completed log, and a log is
\* Completed only when every step succeeded and no abort signal was
\* received, also when a write failed.
C14_FinalizedOnceUnlessIo ==
    /\ [](pc # "done" => (log.state = "Running" /\ ~log.completed_at.some))
    /\ [](pc = "done" =>
            /\ log.state \in {"Completed", "Failed"}
            /\ log.completed_at.some
            /\ run_result.v.ok => log.state = "Completed"
            /\ log.state = "Completed" => (EveryStepSucceeded /\ ~AbortReceived)
            /\ ~IoFailed =>
                  /\ log.state = "Completed" <=> (EveryStepSucceeded /\ ~AbortReceived)
                  /\ saved = save(log))
    /\ [][(log'.state # log.state \/ log'.completed_at # log.completed_at) =>
            /\ pc # "done"
            /\ pc' = "done"
            /\ log.state = "Running"
            /\ log'.completed_at = Some(now)]_vars

\* A run of two steps finalized as Completed.
C14_Witness ==
    /\ pc = "done"
    /\ Len(steps) = 2
    /\ EveryStepSucceeded
    /\ log.state = "Completed"
    /\ log.completed_at.some
    /\ saved = save(log)

\* The Runner's thread has stopped: it is in no wait and at no step.
RunnerStopped == pc \in {"done", "panicked"}

\* C15: whatever the commands of the schedule, when the Runner has stopped
\* the log is finalized as Completed or Failed: the Runner never stops with
\* the log in state Running.
C15_RunAlwaysFinalizes ==
    RunnerStopped => log.state \in {"Completed", "Failed"}

\* A run with a tracker command that returned, finalized as Completed.
C15_Witness ==
    /\ RunnerStopped
    /\ \E n \in 1..Len(dispatched) : step_at(dispatched[n]).cmd.module = "tracker"
    /\ log.state = "Completed"

\* C16: when the run has returned and the worker started by a tracker.run
\* step failed while the run lasted, the run returned an error and the log
\* is Failed.
C16_WorkerFailureAborts ==
    (pc = "done" /\ wk.pc = "ended" /\ wk.err) =>
        /\ log.state = "Failed"
        /\ ~run_result.v.ok

\* The run has returned after the worker of a tracker.run step failed; the
\* tracker was not stopped.
C16_Witness ==
    /\ pc = "done"
    /\ \E n \in 1..Len(dispatched) :
          /\ step_at(dispatched[n]).cmd.module = "tracker"
          /\ step_at(dispatched[n]).cmd.action = "run"
    /\ worker
    /\ wk.pc = "ended"
    /\ wk.err

\* The step being recorded is an executor stop.
StopReturned ==
    /\ pc = "record"
    /\ step_at(idx).cmd = [module |-> "executor", action |-> "stop"]

\* C17: an executor stop returns Ok, also when a tracked child had exited
\* already (so that killing it fails), and leaves the registry empty and no
\* child in its slot; a monitor whose child was taken out of the slot ends at
\* its next poll and sends nothing; and a child killed by a stop is never
\* the step of a sent abort signal nor of the run's Aborted result.
C17_StopNeverAborts ==
    /\ [](StopReturned =>
            /\ cmd_result = Some(Ok)
            /\ processes = <<>>
            /\ \A k \in StepIndex : child[k].slot # "some")
    /\ [](\A k \in StepIndex :
            child[k].st = "killed" =>
                /\ child[k].slot = "none"
                /\ \A n \in 1..Len(abort_rx) : abort_rx[n].step # k
                /\ ~AbortedAt(k))
    /\ [][\A k \in StepIndex :
            (/\ child[k].slot = "none"
             /\ mon[k].pc \in {"poll", "sleep"}
             /\ mon'[k] # mon[k]) =>
                /\ mon'[k].pc = "done"
                /\ abort_rx' = abort_rx]_vars

\* After an executor stop killed the running child of step 0, started with
\* on_fail = abort, its monitor has ended and the channel is empty.
C17_Witness ==
    /\ pc = "drain"
    /\ Len(steps) = 2
    /\ steps[2].cmd = [module |-> "executor", action |-> "stop"]
    /\ child[0].st = "killed"
    /\ mon[0].on_fail = "abort"
    /\ mon[0].pc = "done"
    /\ abort_rx = <<>>

\* C18: when run() has returned, with Completed, a step error or Aborted,
\* the Executor is dropped: its registry is empty, no child is in its slot,
\* and no child of the run is running; a child that was still tracked and
\* running when run() returned has been killed.
C18_NoChildLeftRunning ==
    /\ [](pc = "done" =>
            /\ processes = <<>>
            /\ ~rx_alive
            /\ \A k \in StepIndex :
                  /\ child[k].slot # "some"
                  /\ child[k].st # "running")
    /\ [][(pc # "done" /\ pc' = "done") =>
            \A k \in StepIndex :
                (child[k].slot = "some" /\ child[k].st = "running") =>
                    child'[k].st = "killed"]_vars

\* A run that returned Completed while the child of its run_shell step was
\* running: the child has been killed.
C18_Witness ==
    /\ pc = "done"
    /\ log.state = "Completed"
    /\ \E k \in StepIndex : child[k].st = "killed" /\ k \in Range(dispatched)

\* ------------------------------------------------------------ the tracker's claims

\* C19: whenever the mode is Idle, last_sample is absent and the trajectory
\* is empty; stated for the states between tracker operations, so also for
\* the state in which Stop on a running tracker has returned.
C19_IdleIsCleared ==
    (tpc = "idle" /\ status.mode = Idle) =>
        /\ ~status.last_sample.some
        /\ status.trajectory = <<>>

\* Stop has returned on a tracker that was running and had published a
\* trajectory: the mode is Idle.
C19_Witness ==
    /\ tpc = "idle"
    /\ tret = Some(Ok)
    /\ ~worker
    /\ wk.pc = "ended"
    /\ ~wk.err
    /\ wk.traj # <<>>
    /\ ~wk.end.some
    /\ status.mode = Idle

\* C20: between tracker operations a worker handle is held if and only if
\* the mode is Running, also after the worker ended by itself.
C20_HandleIffRunning ==
    tpc = "idle" => (worker <=> status.mode.name = "Running")

\* Between operations, the worker of a session with an end time has ended
\* by itself without an error, and no Stop was called.
C20_Witness ==
    /\ tpc = "idle"
    /\ worker
    /\ wk.pc = "ended"
    /\ ~wk.err
    /\ wk.end.some

\* C21: a Run called while the mode is Idle spawns a worker and goes on to
\* return success; it never returns AlreadyRunning, so a tracker whose
\* session ended by itself can be started again without a Stop.
C21_RunFromIdleSpawns ==
    [][(RunCall /\ status.mode = Idle) =>
            /\ tpc' = "run_set_mode"
            /\ wk'.pc = "start"
            /\ tret' # Some(Err("AlreadyRunning"))]_vars

\* Run has returned AlreadyRunning on a tracker whose mode is Idle, the
\* worker of the previous session having ended by itself.
C21_Witness ==
    /\ tpc = "idle"
    /\ status.mode = Idle
    /\ tret = Some(Err("AlreadyRunning"))
    /\ worker
    /\ wk.pc = "ended"

\* The worker thread is alive: spawned and not yet returned.
WorkerAlive == wk.pc \notin {"none", "ended"}

\* C22: a Run on a tracker that holds a handle returns AlreadyRunning and
\* changes neither the status nor the worker, its handle or its stop
\* channel; and at most one worker thread is alive at any time: a worker
\* is spawned only when no earlier worker is alive, and between operations
\* a live worker is the one whose handle is held.
C22_OneWorker ==
    /\ []((tpc = "idle" /\ WorkerAlive) => worker)
    /\ [][(RunCall /\ worker) =>
            /\ tret' = Some(Err("AlreadyRunning"))
            /\ UNCHANGED <<status, wk, worker, stop_tx, tpc>>]_vars
    /\ [][(RunCall /\ ~worker) => ~WorkerAlive]_vars

\* Run has returned AlreadyRunning on a tracker whose worker is alive and
\* waiting before a point of its trajectory.
C22_Witness ==
    /\ tpc = "idle"
    /\ tret = Some(Err("AlreadyRunning"))
    /\ worker
    /\ wk.pc = "point"
    /\ status.mode.name = "Running"

\* C23: a Stop on a tracker that holds a handle returns: the worker sees the
\* stop signal at its next wait before a point and exits, and the join
\* ends.  When Stop returns the handle is absent, the mode is Idle and the
\* worker has exited; a worker that has exited writes the status no more,
\* so every later change of the status is made by Run or Stop.
C23_StopReturns ==
    /\ (tpc = "stop_join") ~> (tpc = "idle" /\ tret = Some(Ok))
    /\ [][StopJoin => (/\ ~worker'
                       /\ status'.mode = Idle
                       /\ ~WorkerAlive')]_vars
    /\ [][(wk.pc = "ended" /\ status' # status) =>
            (RunSetMode \/ StopCall \/ StopJoin)]_vars
    /\ [][(stop_tx /\ WorkerStep) => (WorkerStopped \/ wk.pc # "point"
                                       \/ wk.k > Len(wk.traj))]_vars

\* Stop has returned on a tracker whose worker was waiting before a point
\* of a session with an end time: the worker saw the signal before the
\* last point and exited.
C23_Witness ==
    /\ tpc = "idle"
    /\ tret = Some(Ok)
    /\ ~worker
    /\ wk.pc = "ended"
    /\ ~wk.err
    /\ wk.end.some
    /\ wk.k >= 1
    /\ wk.k <= Len(wk.traj)
    /\ status.mode = Idle

\* C24: a Stop called while the mode is Idle leaves the status (mode,
\* last_sample, trajectory) as it is: no worker is alive then, so the
\* status is the same when the call is made, while a handle is joined and
\* when Stop returns.  And a Stop called after a Stop has returned changes
\* nothing of the tracker.
C24_StopOnIdle ==
    /\ [][(StopCall /\ status.mode = Idle) =>
            (status' = status /\ ~WorkerAlive)]_vars
    /\ [][(tpc = "stop_join" /\ status.mode = Idle) =>
            (status' = status /\ ~WorkerAlive)]_vars
    /\ [][(StopCall /\ tret = Some(Ok) /\ ~worker) =>
            UNCHANGED <<status, worker, wk, stop_tx, tpc, tret>>]_vars

\* Stop has returned and the mode is Idle with the trajectory of the
\* stopped session still published: the state a second Stop is called in.
C24_Witness ==
    /\ tpc = "idle"
    /\ tret = Some(Ok)
    /\ ~worker
    /\ status.mode = Idle
    /\ status.trajectory # <<>>
    /\ status.last_sample.some

\* C25: once Run has returned and its worker has exited with an error, the
\* status is mode Idle with no last_sample and an empty trajectory, however
\* the status write of Run and those of the worker were interleaved.
C25_ErrorResetsStatus ==
    (tpc = "idle" /\ worker /\ wk.pc = "ended" /\ wk.err) =>
        status = ClearedStatus

\* Run has returned Ok, its worker has exited with an error, and the mode
\* is Running: the worker's reset came before the write made by Run.
C25_Witness ==
    /\ tpc = "idle"
    /\ tret = Some(Ok)
    /\ worker
    /\ wk.pc = "ended"
    /\ wk.err
    /\ status.mode = Running(wk.end, NoneOpt)

\* C26: the worker publishes the points of a trajectory in their order,
\* each one only when the clock has reached its timestamp, and the
\* timestamp of last_sample never decreases: from one published sample to
\* the next, and from the last sample of a window to every point of the
\* window computed after it.
C26_SamplesInOrder ==
    /\ [](status.last_sample.some => status.last_sample.v <= now)
    /\ [][(status.last_sample.some /\ status'.last_sample.some) =>
            status'.last_sample.v >= status.last_sample.v]_vars
    /\ [][WorkerPublish =>
            /\ status'.last_sample = Some(wk.traj[wk.k])
            /\ wk.k > 1 => status.last_sample = Some(wk.traj[wk.k - 1])]_vars
    /\ [][(WorkerWindow /\ status.last_sample.some) =>
            \A i \in DOMAIN status'.trajectory :
                status'.trajectory[i] >= status.last_sample.v]_vars

\* An open-ended session has published the last point of a window and is
\* about to compute the next window.
C26_Witness ==
    /\ wk.pc = "window"
    /\ ~wk.end.some
    /\ wk.traj # <<>>
    /\ status.trajectory = wk.traj
    /\ status.last_sample = Some(wk.traj[Len(wk.traj)])
    /\ status.mode.name = "Running"

\* ------------------------------------------------ the timing of the steps

\* The senders of the abort channel that are alive: the one the Executor
\* holds, as long as the Runner does, and the clone of every monitor that
\* has not returned.
abort_senders ==
    (IF rx_alive THEN 1 ELSE 0)
        + Cardinality({k \in StepIndex : mon[k].pc \in {"poll", "sleep", "send"}})

\* The step the Runner is at has no time, or a time that is now or past.
StepIsDue == ~step_at(idx).time.some \/ step_at(idx).time.v <= now

\* C27: a step without a time, or whose time is now or past, waits for no
\* time (the wait before it has its deadline now) and is the step that is
\* dispatched next, unless an abort signal is received; a step is never
\* dispatched before its time; the wait before a step ends at its deadline
\* with the step dispatched, or by an abort signal, which ends the run, and
\* in no other way, the channel having a live sender as long as the Runner
\* waits.
C27_StepTiming ==
    /\ []((pc = "wait" /\ StepIsDue) => deadline <= now)
    /\ []((pc = "execute" /\ step_at(idx).time.some) => now >= step_at(idx).time.v)
    /\ []((pc \in {"wait", "drain"}) => abort_senders >= 1)
    /\ [][(pc = "wait" /\ pc' # "wait") =>
            \/ /\ abort_rx = <<>>
               /\ StepIsDue
               /\ pc' = "execute"
               /\ idx' = idx
               /\ now' = now
            \/ /\ abort_rx # <<>>
               /\ pc' = "done"
               /\ run_result' \in {Some(Err([kind |-> "Aborted",
                                              step |-> Head(abort_rx).step,
                                              reason |-> Head(abort_rx).reason])),
                                   Some(IoError)}]_vars
    /\ [][(pc = "execute" /\ pc' # "execute") =>
            dispatched' = Append(dispatched, idx)]_vars

\* The second step is dispatched after its time has passed: the first
\* step waited for a later instant.
C27_Witness ==
    /\ pc = "execute"
    /\ idx = 1
    /\ step_at(0).time = Some(1)
    /\ step_at(1).time = Some(0)
    /\ now = 1
    /\ dispatched = <<0>>

\* ------------------------------------------------------ the parser's claims

\* The variable of this name is there and is a string holding an RFC 3339
\* timestamp.
IsTimestamp(name) ==
    /\ doc.variables[name].some
    /\ doc.variables[name].v.kind = "string"
    /\ doc.variables[name].v.text.form = "rfc3339"

\* The instant in UTC of a variable that is a timestamp.
InstantOf(name) ==
    doc.variables[name].v.text.local - doc.variables[name].v.text.offset

\* The text of the document is YAML and its `variables` is not there, is
\* null, or is a mapping whose keys are all strings: from_str comes to look
\* for start and end.
VariablesAreRead ==
    /\ doc.yaml
    /\ \/ doc.kind \in {"absent", "null"}
       \/ doc.kind = "mapping" /\ ~doc.other_key

\* C28 as stated: when start or end is missing, is no string or is no RFC
\* 3339 timestamp, from_str returns a Validation error; when both are
\* timestamps and end is not after start, equal instants included, it
\* returns the Validation error "'end' must be after 'start'"; in both
\* cases whatever the steps are, and with no schedule.  So a schedule that
\* is returned has end > start.
C28_StartEndValidated ==
    parsed.some =>
        /\ (~IsTimestamp("start") \/ ~IsTimestamp("end")) =>
              (~parsed.v.ok /\ parsed.v.err.kind = "Validation")
        /\ (IsTimestamp("start") /\ IsTimestamp("end")
                /\ InstantOf("end") <= InstantOf("start")) =>
              /\ ~parsed.v.ok
              /\ parsed.v.err.kind = "Validation"
              /\ parsed.v.err.msg = "'end' must be after 'start'"
        /\ parsed.v.ok =>
              /\ parsed.v.v.end > parsed.v.v.start
              /\ parsed.v.v.start = InstantOf("start")
              /\ parsed.v.v.end = InstantOf("end")

\* C28: for a text that is no YAML, or whose `variables` is a scalar, a
\* sequence or a mapping with a key that is no string, from_str returns a
\* Yaml error, start and end not looked at.  For every other document:
\* when start or end is missing, is no string or is no RFC 3339 timestamp,
\* from_str returns a Validation error; when both are timestamps and end is
\* not after start, equal instants included, it returns the Validation
\* error "'end' must be after 'start'".  In all these cases whatever the
\* steps are, and with no schedule.  So a schedule that is returned has
\* end > start.
C28_StartEndValidatedOrYaml ==
    parsed.some =>
        /\ ~VariablesAreRead =>
              (~parsed.v.ok /\ parsed.v.err.kind = "Yaml")
        /\ (VariablesAreRead /\ (~IsTimestamp("start") \/ ~IsTimestamp("end"))) =>
              (~parsed.v.ok /\ parsed.v.err.kind = "Validation")
        /\ (VariablesAreRead /\ IsTimestamp("start") /\ IsTimestamp("end")
                /\ InstantOf("end") <= InstantOf("start")) =>
              /\ ~parsed.v.ok
              /\ parsed.v.err.kind = "Validation"
              /\ parsed.v.err.msg = "'end' must be after 'start'"
        /\ parsed.v.ok =>
              /\ VariablesAreRead
              /\ parsed.v.v.end > parsed.v.v.start
              /\ parsed.v.v.start = InstantOf("start")
              /\ parsed.v.v.end = InstantOf("end")

\* A document with a mapping of variables, whose end is written with a
\* later local time than start and is the same instant, and whose first
\* step is no mapping: from_str has returned the Validation error of the
\* order.
C28_Witness ==
    /\ VariablesAreRead
    /\ doc.kind = "mapping"
    /\ parsed.some
    /\ ~parsed.v.ok
    /\ parsed.v.err.kind = "Validation"
    /\ parsed.v.err.msg = "'end' must be after 'start'"
    /\ doc.variables["start"] = Some(YString(Rfc3339(0, 0)))
    /\ doc.variables["end"] = Some(YString(Rfc3339(1, 1)))
    /\ doc.steps.some
    /\ doc.steps.v # <<>>
    /\ doc.steps.v[1].kind = "scalar"

\* The variables of the document are read and pass the checks of start and
\* end, and `steps` is a sequence: from_str comes to parse the steps.
StepsAreParsed ==
    /\ VariablesAreRead
    /\ IsTimestamp("start")
    /\ IsTimestamp("end")
    /\ InstantOf("end") > InstantOf("start")
    /\ doc.steps.some

\* The value of `time` of a step after the substitution of variables.
TimeAfterSubstitution(step) ==
    LET t == step.time.v
    IN  IF /\ t.kind = "string"
           /\ t.text.form = "dollar"
           /\ t.text.name \in VarNames
           /\ doc.variables[t.text.name].some
        THEN doc.variables[t.text.name].v
        ELSE t

\* The value is a string in one of the three forms of a time.
IsTimeExpression(v) ==
    /\ v.kind = "string"
    /\ \/ v.text.form = "rfc3339"
       \/ v.text.form = "relative" /\ v.text.dur.some
       \/ v.text.form = "offset" /\ v.text.base.form = "rfc3339" /\ v.text.dur.some

\* C29: a step whose `time` is present and, after substitution, is no time
\* expression (a string in none of the three forms, or no string at all)
\* makes from_str fail, with Step(i, ..) when it is the first step; and in
\* a schedule that is returned every step whose `time` is present has a
\* time: a present `time` is never taken as absent.
C29_BadTimeRejected ==
    (parsed.some /\ StepsAreParsed) =>
        \A n \in 1..Len(doc.steps.v) :
            LET s == doc.steps.v[n]
            IN  (s.kind = "mapping" /\ s.time.some) =>
                    /\ ~IsTimeExpression(TimeAfterSubstitution(s)) =>
                          /\ ~parsed.v.ok
                          /\ n = 1 => (/\ parsed.v.err.kind = "Step"
                                       /\ parsed.v.err.index = 0)
                    /\ parsed.v.ok => parsed.v.v.steps[n].time.some

\* from_str has returned a schedule for a document whose first step has a
\* number as its `time`: the step of the schedule has no time.
C29_Witness ==
    /\ parsed.some
    /\ parsed.v.ok
    /\ doc.steps.v # <<>>
    /\ doc.steps.v[1].kind = "mapping"
    /\ doc.steps.v[1].time = Some(YNumber)
    /\ parsed.v.v.steps[1].time = NoneOpt
    /\ parsed.v.v.steps[1].command.module = "tracker"

\* A step with no `time` and one entry, whose key names a subsystem and
\* whose value is a command of it.
GoodStep(s) ==
    /\ s.kind = "mapping"
    /\ ~s.time.some
    /\ Len(s.entries) = 1
    /\ s.entries[1].is_str
    /\ s.entries[1].key \in Modules
    /\ s.entries[1].decodes

\* The entries of a step besides `time` are not one entry whose key names
\* a subsystem: none, more than one, or a key that is no subsystem.
BadCommand(es) ==
    \/ es = <<>>
    \/ Len(es) > 1
    \/ ~es[1].is_str
    \/ es[1].key \notin Modules

\* C30: in a schedule that is returned every step came from a mapping with
\* exactly one entry besides `time`, its key tracker, executor or radio;
\* and the first step of a document that has no command key, an unknown
\* key or more than one command key makes from_str fail with Step(i, ..),
\* i the index of that step, no schedule being returned.
C30_OneCommandKey ==
    (parsed.some /\ StepsAreParsed) =>
        /\ parsed.v.ok =>
              \A n \in 1..Len(doc.steps.v) :
                  /\ doc.steps.v[n].kind = "mapping"
                  /\ ~BadCommand(doc.steps.v[n].entries)
        /\ \A n \in 1..Len(doc.steps.v) :
              (/\ \A m \in 1..(n - 1) : GoodStep(doc.steps.v[m])
               /\ doc.steps.v[n].kind = "mapping"
               /\ ~doc.steps.v[n].time.some
               /\ BadCommand(doc.steps.v[n].entries)) =>
                  /\ ~parsed.v.ok
                  /\ parsed.v.err.kind = "Step"
                  /\ parsed.v.err.index = n - 1

\* from_str has returned a schedule for a document whose second step has
\* the keys tracker and executor: the step of the schedule is the tracker's
\* command, the executor's is gone.
C30_Witness ==
    /\ parsed.some
    /\ parsed.v.ok
    /\ Len(doc.steps.v) = 2
    /\ GoodStep(doc.steps.v[1])
    /\ doc.steps.v[2].kind = "mapping"
    /\ Len(doc.steps.v[2].entries) = 2
    /\ doc.steps.v[2].entries[2].key = "executor"
    /\ parsed.v.v.steps[2].command.module = "tracker"

\* ---------------------------------------------------- claims on functions

\* C31: resolve returns for every time expression and every start: start + d
\* for Relative(d), d positive, zero or negative, and t for Absolute(t).
C31_ResolveTotal ==
    output.some =>
        /\ output.v.ok
        /\ input.expr.kind = "Relative" => output.v.v = input.start + input.expr.d
        /\ input.expr.kind = "Absolute" => output.v.v = input.expr.t

\* resolve has returned start + d for a negative d.
C31_Witness ==
    /\ output.some
    /\ output.v.ok
    /\ input.expr.kind = "Relative"
    /\ input.expr.d < 0
    /\ output.v.v = input.start + input.expr.d
    /\ output.v.v < input.start

\* C32: the azimuth_deg stored in a sample, after the rounding to 2
\* decimals, is at least 0 and below 360.
C32_AzimuthBelow360 ==
    output.some => (0 <= output.v /\ output.v < FullTurn * Hundred)

\* An azimuth less than half a hundredth below 360 degrees has been stored
\* as 360.00.
C32_Witness ==
    /\ output.some
    /\ input.atan2.n < 0
    /\ rem_euclid(input.atan2, FullTurn).n < FullTurn * Degree
    /\ output.v = FullTurn * Hundred

\* C33: when the artifacts directory of the schedule id exists with content,
\* creating the log returns an error, and the execution_log.yaml and the
\* step log files that were there stay as they were.
C33_ExistingDirFailsSafe ==
    (output.some /\ HasContent(input.dir)) =>
        /\ ~output.v.result.ok
        /\ output.v.dir = input.dir

\* The log was created over the directory of an earlier run, and has replaced
\* the earlier execution_log.yaml and truncated the log of step 0.
C33_Witness ==
    /\ output.some
    /\ output.v.result.ok
    /\ input.dir.some
    /\ input.dir.v.execution_log.some
    /\ input.dir.v.step_logs[0] = OldFile
    /\ output.v.dir.some
    /\ output.v.last.ok
    /\ output.v.dir.v.execution_log = save(output.v.execution_log)
    /\ output.v.dir.v.execution_log # input.dir.v.execution_log
    /\ output.v.dir.v.step_logs[0] = NewFile

\* C34: a signal enters the channel only by the monitor of a step k whose
\* child has exited with a code other than 0 and whose on_fail is abort; the
\* signal carries k, the index of the run_shell step that spawned the child;
\* the monitor ends with the send and an ended monitor stays ended, so that
\* a child causes at most one signal, and a child with on_fail = continue or
\* exit code 0 none.
C34_SignalOnlyOnAbortFailure ==
    [][/\ Len(abort_rx') > Len(abort_rx) =>
            \E k \in StepIndex :
                /\ abort_rx' = Append(abort_rx, AbortSignal(k, child[k].code))
                /\ child[k].st = "exited"
                /\ child[k].code # 0
                /\ k < Len(steps)
                /\ step_at(k).cmd =
                       [module |-> "executor", action |-> "run_shell", on_fail |-> "abort"]
                /\ mon[k].on_fail = "abort"
                /\ mon[k].pc = "send"
                /\ mon'[k].pc = "done"
       /\ \A k \in StepIndex : mon[k].pc = "done" => mon'[k].pc = "done"
      ]_vars

\* The child of step 0, on_fail = continue, has failed and its monitor has
\* ended without a signal; the only signal is that of step 1.
C34_Witness ==
    /\ Len(steps) = 2
    /\ step_at(0).cmd = [module |-> "executor", action |-> "run_shell", on_fail |-> "continue"]
    /\ child[0].st = "exited"
    /\ child[0].code # 0
    /\ mon[0].pc = "done"
    /\ mon[1].pc = "done"
    /\ abort_rx = <<AbortSignal(1, child[1].code)>>

\* The file approve(id) reads: the one the path of id in AwaitingApproval
\* names.
Pending(id) == CHOOSE f \in file_at(files, folders, schedule_path("AwaitingApproval", id)) : TRUE

IsPending(id) == path_exists(files, folders, schedule_path("AwaitingApproval", id))

LastIndex == (input.end - input.start) \div input.step

\* The samples on the grid of the window: start + k * step, k = 0 ..
\* floor((end - start) / step), none when end < start.
GridSamples ==
    IF input.end < input.start
    THEN <<>>
    ELSE [k \in 1..(LastIndex + 1) |-> input.start + (k - 1) * input.step]

\* C36: for a positive step build_trajectory returns the samples of the
\* timestamps start + k * step, k = 0 .. floor((end - start) / step), in
\* strictly increasing order, end among them when it is on the grid, and the
\* empty list when end < start; when the propagation of one of them fails it
\* returns the error, without a list.
C36_TrajectoryGrid ==
    output.some =>
        IF \E k \in 1..Len(GridSamples) : GridSamples[k] \in input.failing
        THEN output.v = Err("Propagation")
        ELSE /\ output.v = OkOf(GridSamples)
             /\ \A k \in 1..(Len(output.v.v) - 1) : output.v.v[k] < output.v.v[k + 1]
             /\ input.end < input.start => output.v.v = <<>>
             /\ (/\ input.start <= input.end
                 /\ (input.end - input.start) % input.step = 0) =>
                    output.v.v[Len(output.v.v)] = input.end

\* A trajectory of step 2 whose last sample is at end.
C36_Witness ==
    /\ output.some
    /\ output.v.ok
    /\ input.step = 2
    /\ Len(output.v.v) = 2
    /\ output.v.v[1] = input.start
    /\ output.v.v[2] = input.end

\* C37: a present last_sample is an element of the trajectory published in
\* the status; whenever the published trajectory changes, last_sample is
\* absent after the same step; and a sample becomes last_sample only when it
\* is a point of the trajectory the worker published last, which is the one
\* in the status.
C37_SampleOfTrajectory ==
    /\ [](status.last_sample.some => status.last_sample.v \in Range(status.trajectory))
    /\ [][status'.trajectory # status.trajectory => ~status'.last_sample.some]_vars
    /\ [][(status'.last_sample.some /\ status'.last_sample # status.last_sample) =>
            /\ status'.trajectory = status.trajectory
            /\ wk.traj = status.trajectory
            /\ status'.last_sample.v \in Range(wk.traj)]_vars

\* The worker has published the second point of the trajectory that is in
\* the status, and has more points to go.
C37_Witness ==
    /\ wk.pc = "point"
    /\ status.mode.name = "Running"
    /\ status.trajectory = wk.traj
    /\ Len(wk.traj) >= 2
    /\ wk.k = 3
    /\ status.last_sample = Some(status.trajectory[2])

\* The indices of the StepResults follow the dispatch: they are 0, 1, .. in
\* this order; between two steps and after the run they are the indices of
\* the steps dispatched so far, and while a step is executed (or the Runner
\* has stopped in it) that step is the only dispatched one without a result.
ResultsFollowDispatch ==
    /\ result_indices = [n \in 1..Len(log.step_results) |-> n - 1]
    /\ IF pc \in {"tracker_run", "tracker_join", "record"}
       THEN dispatched = Append(result_indices, idx)
       ELSE IF pc = "panicked"
       THEN dispatched \in {result_indices, Append(result_indices, idx)}
       ELSE dispatched = result_indices

\* C38 as stated: the StepResults of the log have the indices of the steps
\* dispatched so far; every change of the log is saved in the same step,
\* after which reading execution_log.yaml gives the log in memory; when
\* run() has returned neither the log nor the file changes, also when a
\* monitor sends its signal afterwards.
C38_LogTracksRun ==
    /\ []ResultsFollowDispatch
    /\ [][log' # log => holds_log(saved', log')]_vars
    /\ [][pc = "done" => (log' = log /\ saved' = saved)]_vars

\* C38: the StepResults of the log have the indices of the steps dispatched
\* so far; every change of the log is written in the same step, after which
\* reading execution_log.yaml gives the log in memory, unless the write
\* fails: then run() returns the I/O error in that step; the Runner writes
\* the file only with a log it holds; when run() has returned neither the
\* log nor the file changes, also when a monitor sends its signal afterwards.
C38_LogTracksRunUnlessIo ==
    /\ []ResultsFollowDispatch
    /\ [][log' # log =>
            \/ holds_log(saved', log')
            \/ pc' = "done" /\ run_result' = Some(IoError)]_vars
    /\ [][(saved' # saved /\ saved'.some /\ run_result' # Some(IoError)) =>
            holds_log(saved', log')]_vars
    /\ [][pc = "done" => (log' = log /\ saved' = saved)]_vars

\* A run of one run_shell step with on_fail = abort has returned Ok, and the
\* monitor of its child, which had failed, has sent its signal afterwards:
\* the signal was dropped and the saved log is the Completed one.
C38_Witness ==
    /\ pc = "done"
    /\ Len(steps) = 1
    /\ steps[1].cmd = [module |-> "executor", action |-> "run_shell", on_fail |-> "abort"]
    /\ child[0].st = "exited"
    /\ child[0].code # 0
    /\ mon[0].pc = "done"
    /\ abort_rx = <<>>
    /\ run_result = Some(Ok)
    /\ log.state = "Completed"
    /\ result_indices = <<0>>
    /\ saved = save(log)

\* C39: the value resolve_value gives to a string is the same for every
\* order in which the variables can be visited, also when the name of one
\* variable is a prefix of the name of another.
C39_SubstitutionOrderFree ==
    output.some =>
        \A order \in Orders(input.vars) :
            resolve_value_String(input.text, input.vars, order) = output.v.value

\* `x$endpoint` with the variables end and endpoint has become `xEpoint`:
\* `$end` was replaced first, inside `$endpoint`.
C39_Witness ==
    /\ output.some
    /\ input.text = <<"x", "$", "end", "point">>
    /\ EndpointName \in DOMAIN input.vars
    /\ input.vars[EndpointName] = Scalar(<<"P">>)
    /\ output.v.order = <<EndName, EndpointName>>
    /\ output.v.value = [kind |-> "string", text |-> <<"x", "E", "point">>]
    /\ resolve_value_String(input.text, input.vars, <<EndpointName, EndName>>)
           = [kind |-> "string", text |-> <<"x", "P">>]

\* C40: every pass predict_passes returns has
\* start <= aos <= tca <= los <= end.
C40_PassInsideWindow ==
    output.some =>
        \A n \in 1..Len(output.v) :
            /\ input.start <= output.v[n].aos
            /\ output.v[n].aos <= output.v[n].tca
            /\ output.v[n].tca <= output.v[n].los
            /\ output.v[n].los <= input.end

\* The satellite rose before the window began and set inside it: the pass
\* returned begins before start.
C40_Witness ==
    /\ output.some
    /\ input.flight.some
    /\ input.flight.v.rise < input.start
    /\ input.flight.v.set < input.end
    /\ Len(output.v) = 1
    /\ output.v[1].aos < input.start
    /\ output.v[1].los <= input.end

====
